---- MODULE Spec2Model ----
(***************************************************************************)
(* Model of the yt-transcript Strapi plugin: the transcript extraction     *)
(* pipeline (utils/fetch-transcript), the storage service, and the MCP     *)
(* tools fetch_transcript / get_transcript / search_transcript /           *)
(* list_transcripts / find_transcripts.                                    *)
(*                                                                         *)
(* Text is a sequence of one-character strings.  An optional value is a    *)
(* sequence of length 0 (undefined) or 1.  Times are integers in           *)
(* milliseconds unless stated otherwise.                                   *)
(***************************************************************************)
EXTENDS Integers, Sequences, FiniteSets, TLC

VARIABLES cfg, store, pc, inv, upstream, ext, req, resp, fin, fout,
          sessions, closed, uuids, clock, mcp, mcpOut,
          oauthCodes, oauthTokens, minted, grant, grantOut

vars == <<cfg, store, pc, inv, upstream, ext, req, resp, fin, fout,
          sessions, closed, uuids, clock, mcp, mcpOut,
          oauthCodes, oauthTokens, minted, grant, grantOut>>

(***************************************************************************)
(* Bounds of the model.                                                    *)
(***************************************************************************)
MaxProcs == 2
MaxTracks == 2
MaxEntries == 3
MaxWindows == 3

Procs == 1..MaxProcs

(***************************************************************************)
(* Generic helpers.                                                        *)
(***************************************************************************)
Undefined == <<>>

Some(x) == <<x>>

IsDefined(o) == Len(o) > 0

Min(a, b) == IF a < b THEN a ELSE b

Max(a, b) == IF a > b THEN a ELSE b

SeqsUpTo(S, n) == UNION {[1..k -> S] : k \in 0..n}

RECURSIVE Join(_, _)
\* Array.prototype.join(sep) on an array of texts
Join(texts, sep) ==
  IF Len(texts) = 0 THEN <<>>
  ELSE IF Len(texts) = 1 THEN texts[1]
  ELSE texts[1] \o sep \o Join(Tail(texts), sep)

RECURSIVE Flatten(_)
Flatten(ss) == IF Len(ss) = 0 THEN <<>> ELSE ss[1] \o Flatten(Tail(ss))

\* Array.prototype.find: the first element satisfying the test, as an optional
Find(s, Test(_)) ==
  LET hits == {i \in 1..Len(s) : Test(s[i])}
  IN IF hits = {} THEN Undefined
     ELSE Some(s[CHOOSE i \in hits : \A j \in hits : i <= j])

Space == <<" ">>

Ellipsis == <<".", ".", ".">>

\* String.prototype.substring(0, n)
Substring0(text, n) == SubSeq(text, 1, Min(n, Len(text)))

\* String.prototype.trim
Trim(text) ==
  IF \A i \in 1..Len(text) : text[i] = " " THEN <<>>
  ELSE SubSeq(text,
              CHOOSE i \in 1..Len(text) : text[i] # " " /\ \A j \in 1..(i - 1) : text[j] = " ",
              CHOOSE i \in 1..Len(text) :
                text[i] # " " /\ \A j \in (i + 1)..Len(text) : text[j] = " ")

(***************************************************************************)
(* Caption documents.  A document is the sequence of caption tags the two  *)
(* regular expressions can match, in document order.  A tag is             *)
(*   [tag |-> "p", t, d, raw]     <p t="ms" d="ms">raw</p>                 *)
(*   [tag |-> "text", t, d, raw]  <text start="s" dur="s">raw</text>       *)
(* For "p" tags t and d are the millisecond attributes.  For "text" tags   *)
(* t and d are the decimal second attributes in units of half a            *)
(* millisecond (d = -1: no dur attribute).  raw is a sequence of pieces:   *)
(* characters, entities ("&amp;") and markup ("<b>").                      *)
(***************************************************************************)
IsMarkup(c) == c \in {"<b>", "</b>"}

\* the entity replacements of decodeHtml on one piece
DecodePiece(c) ==
  CASE c = "&amp;" -> "&"
    [] c = "&lt;" -> "<"
    [] c = "&gt;" -> ">"
    [] c = "&quot;" -> "\""
    [] c = "&#39;" -> "'"
    [] c = "&apos;" -> "'"
    [] c = "&#33;" -> "!"
    [] OTHER -> c

\* the entity replacements of decodeHtmlEntities on one piece
DecodeEntity(c) == IF c = "&nbsp;" THEN " " ELSE DecodePiece(c)

RECURSIVE StripTags(_, _)
\* replace(/<[^>]*>/g, '') (least = 0) and replace(/<[^>]+>/g, '') (least = 1):
\* every span from a '<' to the first '>' after it is removed
StripTags(s, least) ==
  LET opens == {i \in 1..Len(s) : IsMarkup(s[i]) \/ s[i] = "<"}
  IN IF opens = {} THEN s
     ELSE LET i == CHOOSE k \in opens : \A j \in opens : k <= j
              closers == {j \in (i + 1)..Len(s) : IsMarkup(s[j]) \/ s[j] = ">"}
              after(k) == StripTags(SubSeq(s, k + 1, Len(s)), least)
          IN IF IsMarkup(s[i]) THEN SubSeq(s, 1, i - 1) \o after(i)
             ELSE IF closers = {} THEN s
             ELSE LET j == CHOOSE k \in closers : \A l \in closers : k <= l
                  IN IF IsMarkup(s[j]) \/ j - i - 1 >= least
                     THEN SubSeq(s, 1, i - 1) \o after(j)
                     ELSE SubSeq(s, 1, i) \o after(i)

\* decodeHtml (direct Innertube version): entities, then markup, then trim
decodeHtml(raw) == Trim(StripTags([i \in 1..Len(raw) |-> DecodePiece(raw[i])], 0))

\* decodeHtmlEntities (youtubei.js version): entities, then markup, then trim
decodeHtmlEntities(raw) == Trim(StripTags([i \in 1..Len(raw) |-> DecodeEntity(raw[i])], 1))

\* Math.round(x * 1000) for x given in half-milliseconds
RoundHalfMs(h) == (h + 1) \div 2

\* parseFloat(match[2] || '0') in half-milliseconds
DurHalfMs(tag) == IF tag.d < 0 THEN 0 ELSE tag.d

RECURSIVE parseTranscriptXml(_)
\* utils/fetch-transcript (direct Innertube version): <text> tags only
parseTranscriptXml(xml) ==
  IF Len(xml) = 0 THEN <<>>
  ELSE LET m == xml[1]
           text == decodeHtml(m.raw)
       IN (IF m.tag = "text" /\ Len(text) > 0
           THEN <<[text |-> text,
                   start |-> RoundHalfMs(m.t),
                   end |-> RoundHalfMs(m.t + DurHalfMs(m)),
                   duration |-> RoundHalfMs(DurHalfMs(m))]>>
           ELSE <<>>) \o parseTranscriptXml(Tail(xml))

RECURSIVE parsePTagFormat(_)
\* utils/fetch-transcript (youtubei.js version): grammar A, <p t d> tags
parsePTagFormat(xml) ==
  IF Len(xml) = 0 THEN <<>>
  ELSE LET m == xml[1]
           text == decodeHtmlEntities(m.raw)
       IN (IF m.tag = "p" /\ Len(m.raw) > 0 /\ Len(text) > 0
           THEN <<[text |-> text, start |-> m.t, end |-> m.t + m.d, duration |-> m.d]>>
           ELSE <<>>) \o parsePTagFormat(Tail(xml))

RECURSIVE parseTextTagFormat(_)
\* utils/fetch-transcript (youtubei.js version): grammar B, <text start dur> tags
parseTextTagFormat(xml) ==
  IF Len(xml) = 0 THEN <<>>
  ELSE LET m == xml[1]
           text == decodeHtmlEntities(m.raw)
           start == RoundHalfMs(m.t)
           duration == RoundHalfMs(DurHalfMs(m))
       IN (IF m.tag = "text" /\ Len(m.raw) > 0 /\ Len(text) > 0
           THEN <<[text |-> text, start |-> start, end |-> start + duration,
                   duration |-> duration]>>
           ELSE <<>>) \o parseTextTagFormat(Tail(xml))

\* parseTimedTextXml trying grammar B first
parseTimedTextXmlTextFirst(xml) ==
  LET textSegments == parseTextTagFormat(xml)
  IN IF Len(textSegments) > 0 THEN textSegments ELSE parsePTagFormat(xml)

\* grammar A first, grammar B only when A yields nothing
parseTimedTextXml(xml) ==
  LET pSegments == parsePTagFormat(xml)
  IN IF Len(pSegments) > 0 THEN pSegments ELSE parseTextTagFormat(xml)

RECURSIVE SegmentTexts(_)
\* segments.map((s) => s.text)
SegmentTexts(segments) ==
  IF Len(segments) = 0 THEN <<>>
  ELSE <<segments[1].text>> \o SegmentTexts(Tail(segments))

(***************************************************************************)
(* Caption tracks.  baseUrl is the sequence of the parts of the URL: the   *)
(* path and its query parameters.                                          *)
(***************************************************************************)
Includes(url, part) == \E i \in 1..Len(url) : url[i] = part

\* String.prototype.replace(part, ''): removes the first occurrence only
ReplaceFirst(url, part) ==
  IF ~Includes(url, part) THEN url
  ELSE LET k == CHOOSE i \in 1..Len(url) :
                  url[i] = part /\ \A j \in 1..(i - 1) : url[j] # part
       IN SubSeq(url, 1, k - 1) \o SubSeq(url, k + 1, Len(url))

IsManualEn(t) == t.languageCode = "en" /\ t.kind # "asr"

IsEn(t) == t.languageCode = "en"

\* String.prototype.startsWith('en') on the language codes of the model
StartsWithEn(t) == t.languageCode \in {"en", "en-US"}

\* direct Innertube version: manual 'en', then any 'en', then the first track
SelectTrack(captionTracks) ==
  LET manual == Find(captionTracks, IsManualEn)
      english == Find(captionTracks, IsEn)
  IN IF IsDefined(manual) THEN manual[1]
     ELSE IF IsDefined(english) THEN english[1]
     ELSE captionTracks[1]

\* youtubei.js version: manual 'en', then any code starting with 'en', then the first
SelectTrackYoutubei(captionTracks) ==
  LET manual == Find(captionTracks, IsManualEn)
      english == Find(captionTracks, StartsWithEn)
  IN IF IsDefined(manual) THEN manual[1]
     ELSE IF IsDefined(english) THEN english[1]
     ELSE captionTracks[1]

\* HasPoToken without the marker test
HasPoTokenNever(track) == FALSE

HasPoToken(track) == Includes(track.baseUrl, "&exp=xpe")

\* track.baseUrl.replace('&fmt=srv3', '')
CaptionUrl(track) == ReplaceFirst(track.baseUrl, "&fmt=srv3")

(***************************************************************************)
(* Error messages of the extraction pipeline (status = 0: no status in the *)
(* message).                                                               *)
(***************************************************************************)
Err(message, detail) == [message |-> message, detail |-> detail]

RateLimited == Err("IP blocked by YouTube (rate limited)", "")

PageFailed(status) == Err("Failed to fetch video page", ToString(status))

NoApiKey == Err("Could not extract INNERTUBE_API_KEY from page", "")

InnertubeFailed(status) == Err("Innertube API request failed", ToString(status))

NotPlayable(reason) == Err("Video not playable", reason)

NoCaptions == Err("No captions available for this video", "")

PoTokenRequired == Err("This video requires PoToken authentication (not supported)", "")

TranscriptFailed(status) == Err("Failed to fetch transcript", ToString(status))

TranscriptEmpty == Err("Transcript response was empty", "")

ParseFailed == Err("Failed to parse any transcript segments", "")

SignInRequired == Err("YouTube requires sign-in", "")

NoTrackUrl == Err("No valid caption track URL found", "")

TimedTextFailed(status) == Err("Failed to fetch timedtext", ToString(status))

TimedTextEmpty == Err("Empty timedtext response", "")

ParseFailedXml == Err("Failed to parse any transcript segments from XML", "")

LibraryError == Err("youtubei.js error", "")

\* response.ok
IsOk(status) == status >= 200 /\ status <= 299

(***************************************************************************)
(* Plugin configuration (config/index.ts).  0 stands for an unset value.   *)
(***************************************************************************)
DefaultConfig ==
  [chunkSizeSeconds |-> 300, previewLength |-> 500,
   maxFullTranscriptLength |-> 50000, searchSegmentSeconds |-> 30]

\* the smallest values the validator accepts
MinConfig ==
  [chunkSizeSeconds |-> 30, previewLength |-> 100,
   maxFullTranscriptLength |-> 1000, searchSegmentSeconds |-> 10]

\* config values that pass the validator
ValidConfig(c) ==
  /\ c.chunkSizeSeconds >= 30
  /\ c.previewLength >= 100
  /\ c.maxFullTranscriptLength >= 1000
  /\ c.searchSegmentSeconds >= 10

Configs == {c \in {DefaultConfig, MinConfig} : ValidConfig(c)}

\* x || fallback
OrDefault(x, fallback) == IF x = 0 THEN fallback ELSE x

(***************************************************************************)
(* Identifiers and caller inputs.                                          *)
(***************************************************************************)
IdChars ==
  {"a", "b", "c", "d", "e", "f", "g", "h", "i", "j", "k", "l", "m", "n", "o", "p", "q",
   "r", "s", "t", "u", "v", "w", "x", "y", "z", "A", "B", "C", "D", "E", "F", "G", "H",
   "I", "J", "K", "L", "M", "N", "O", "P", "Q", "R", "S", "T", "U", "V", "W", "X", "Y",
   "Z", "0", "1", "2", "3", "4", "5", "6", "7", "8", "9", "_", "-"}

\* /^[a-zA-Z0-9_-]{11}$/
IsValidId(id) == Len(id) = 11 /\ \A i \in 1..Len(id) : id[i] \in IdChars

Id1 == <<"d", "Q", "w", "4", "w", "9", "W", "g", "X", "c", "Q">>

Id2 == <<"a", "b", "c", "_", "-", "0", "1", "2", "X", "Y", "Z">>

IdShort == <<"b", "a", "d">>

IdBadChar == <<"d", "Q", "w", "4", "w", "9", "W", "g", "X", "c", "!">>

\* a caller input is a bare identifier or a URL of an accepted shape carrying one
Inputs ==
  {[form |-> "id", id |-> Id1], [form |-> "watchUrl", id |-> Id1],
   [form |-> "id", id |-> Id2], [form |-> "id", id |-> IdShort],
   [form |-> "shortUrl", id |-> IdBadChar], [form |-> "id", id |-> <<>>]}

\* utils/extract-youtube-id: the canonical identifier, or undefined
extractYouTubeID(videoIdOrUrl) ==
  IF IsValidId(videoIdOrUrl.id) THEN Some(videoIdOrUrl.id) ELSE Undefined

(***************************************************************************)
(* Texts and caption documents used as upstream responses.                 *)
(***************************************************************************)
TxtNever == <<"n", "e", "v", "e", "r", " ", "g", "o", "n", "n", "a">>

TxtGive == <<"G", "i", "v", "e", " ", "y", "o", "u", " ", "u", "p", ".">>

TxtNeverLet == <<"n", "e", "v", "e", "r", " ", "l", "e", "t", " ", "u">>

TxtA == <<"a">>

RawAmp == <<" ", "u", "p", " ", "&amp;", " ", "<b>", "g", "o", "</b>", " ">>

RawBlank == <<" ", "<b>", "</b>", " ">>

\* a text one character longer than the smallest accepted maxFullTranscriptLength
TxtLong == [i \in 1..(MinConfig.maxFullTranscriptLength + 1) |-> "a"]

PTag(t, d, raw) == [tag |-> "p", t |-> t, d |-> d, raw |-> raw]

\* start and dur in half-milliseconds
TextTag(t, d, raw) == [tag |-> "text", t |-> t, d |-> d, raw |-> raw]

\* grammar B, three entries in start order, 45 s apart
DocText == <<TextTag(0, 8000, TxtNever), TextTag(24000, 6001, TxtGive),
             TextTag(90000, 10000, RawAmp)>>

\* grammar A, three entries
DocP == <<PTag(0, 4000, TxtNever), PTag(12000, 3000, TxtGive), PTag(45000, 5000, TxtNeverLet)>>

\* grammar B, entries out of start order, one without dur, one with fractional times
DocUnsorted == <<TextTag(62001, 3001, TxtNeverLet), TextTag(0, -1, TxtNever)>>

\* both grammars in one document
DocMixed == <<TextTag(0, 2000, TxtA), PTag(1000, 1000, TxtGive)>>

\* tags whose text is empty after decoding
DocBlank == <<TextTag(0, 2000, RawBlank), PTag(0, 1000, RawBlank)>>

\* a non-empty body without any caption tag
DocJunk == <<>>

\* one long entry
DocLong == <<TextTag(0, 240000, TxtLong), TextTag(130000, 4000, TxtNever)>>

\* longer than the smallest accepted previewLength, shorter than the default one
TxtMedium == [i \in 1..(MinConfig.previewLength + 30) |-> "a"]

DocMedium == <<TextTag(2000, 60000, TxtMedium), TextTag(80000, 4000, TxtGive)>>

\* grammar B in start order, the last entry without dur
DocNoDur == <<TextTag(0, 8000, TxtNever), TextTag(48000, -1, TxtGive)>>

Docs == {DocText, DocP, DocUnsorted, DocMixed, DocBlank, DocJunk, DocMedium, DocLong}

\* response bodies of the caption endpoint: the empty string or a document
CaptionBodies == {Undefined} \cup {Some(d) : d \in Docs}

Statuses == {200, 404, 429, 500}

CaptionResponses ==
  {[status |-> st, body |-> Undefined] : st \in Statuses \ {200}}
    \cup {[status |-> 200, body |-> b] : b \in CaptionBodies}

\* <title> contents as pieces; ' - YouTube' is removed by the pipeline
TitleRaws == {Undefined, Some(<<"R", "i", "c", "k", " - YouTube">>), Some(<<" - YouTube">>)}

\* watch page markup: consent form marker, consent value, API key, title
Htmls ==
  [consentForm : BOOLEAN, v : {Undefined, Some("cb")},
   apiKey : {Undefined, Some("AIza_key-1")}, title : TitleRaws]

PlainHtml ==
  [consentForm |-> FALSE, v |-> Undefined, apiKey |-> Some("AIza_key-1"),
   title |-> Some(<<"R", "i", "c", "k", " - YouTube">>)]

NoHtml == [consentForm |-> FALSE, v |-> Undefined, apiKey |-> Undefined, title |-> Undefined]

PageResponses ==
  {[status |-> st, html |-> NoHtml] : st \in Statuses \ {200}}
    \cup {[status |-> 200, html |-> h] : h \in Htmls}

UrlPlain == <<"/api/timedtext?v=x">>

UrlSrv3 == <<"/api/timedtext?v=x", "&fmt=srv3">>

UrlXpe == <<"/api/timedtext?v=x", "&exp=xpe", "&fmt=srv3">>

Urls == {UrlSrv3, UrlXpe}

LanguageCodes == {"en", "en-US", "fr"}

Kinds == {"asr", "manual"}

Tracks == [languageCode : LanguageCodes, kind : Kinds, baseUrl : Urls]

Track(l, k, u) == [languageCode |-> l, kind |-> k, baseUrl |-> u]

\* manual English after automatic English, before French
ExampleTracks ==
  <<Track("en", "asr", UrlSrv3), Track("en", "manual", UrlSrv3), Track("fr", "manual", UrlSrv3)>>

\* regional English codes only, after French
RegionalTracks ==
  <<Track("fr", "manual", UrlSrv3), Track("en-US", "asr", UrlSrv3),
    Track("en-US", "manual", UrlSrv3)>>

\* the first choice carries the proof-of-origin marker, the others do not
MarkedTracks ==
  <<Track("fr", "manual", UrlSrv3), Track("en", "manual", UrlXpe), Track("en", "asr", UrlSrv3)>>

TrackLists == SeqsUpTo(Tracks, MaxTracks) \cup {ExampleTracks, RegionalTracks, MarkedTracks}

\* playabilityStatus of the player response: absent, or a status with an optional reason
Playabilities ==
  {Undefined, Some([status |-> "OK", reason |-> Undefined]),
   Some([status |-> "LOGIN_REQUIRED", reason |-> Some("Sign in to confirm your age")]),
   Some([status |-> "ERROR", reason |-> Undefined])}

PlayerData(pl, tr) == [playabilityStatus |-> pl, captionTracks |-> tr]

\* captionTracks: absent or a list
PlayerDatas(lists) ==
  {PlayerData(pl, Undefined) : pl \in Playabilities}
    \cup {PlayerData(pl, Some(<<Track("en", "manual", UrlSrv3)>>)) : pl \in Playabilities}
    \cup {PlayerData(Some([status |-> "OK", reason |-> Undefined]), Some(l)) : l \in lists}

PlayerResponses(lists) ==
  {[status |-> st, data |-> PlayerData(Undefined, Undefined)] : st \in Statuses \ {200}}
    \cup {[status |-> 200, data |-> d] : d \in PlayerDatas(lists)}

(***************************************************************************)
(* Storage service (services/service.ts).  The collection is the sequence  *)
(* of created documents in creation order.                                 *)
(***************************************************************************)
\* findTranscript: documents.findFirst({filters: {videoId}}), as an optional
findTranscript(docs, videoId) ==
  LET hits == {i \in 1..Len(docs) : docs[i].videoId = videoId}
  IN IF hits = {} THEN Undefined
     ELSE Some(docs[CHOOSE i \in hits : \A j \in hits : i <= j])

\* saveTranscript overwriting the document of the same video instead of creating one
saveTranscriptUpsert(docs, payload) ==
  LET hits == {i \in 1..Len(docs) : docs[i].videoId = payload.videoId}
  IN IF hits = {} THEN Append(docs, payload)
     ELSE [docs EXCEPT ![CHOOSE i \in hits : \A j \in hits : i <= j] = payload]

\* saveTranscript creating no second document for a video that already has one
saveTranscriptUnique(docs, payload) ==
  IF IsDefined(findTranscript(docs, payload.videoId)) THEN docs ELSE Append(docs, payload)

\* saveTranscript: documents.create({data: payload})
saveTranscript(docs, payload) == Append(docs, payload)

(***************************************************************************)
(* Tool results.  A result is [tool, body]: body is the JSON object the    *)
(* handler serialises.                                                     *)
(***************************************************************************)
NoResult == [tool |-> "none", body |-> [none |-> TRUE]]

\* handleToolCall: a handler's exception becomes an error result
ToolError(name, message) ==
  [tool |-> name, body |-> [error |-> TRUE, message |-> message, tool |-> name]]

InvalidIdMessage(videoIdOrUrl) ==
  Err("Invalid YouTube video ID or URL", videoIdOrUrl.form)

ValidationMessage(name) == Err("Validation failed for", name)

\* fetchTranscript: the cause wrapped with the video identifier
Wrapped(videoId, cause) ==
  [message |-> "Failed to fetch transcript for video", videoId |-> videoId, cause |-> cause]

\* getVideoDurationMs
getVideoDurationMs(timecodes) ==
  IF Len(timecodes) = 0 THEN 0
  ELSE LET lastEntry == timecodes[Len(timecodes)]
       IN IF lastEntry.end # 0 THEN lastEntry.end
          ELSE lastEntry.start + lastEntry.duration

\* formatTime: H:MM:SS when hours > 0, else M:SS
formatTime(ms) ==
  LET totalSeconds == ms \div 1000
  IN [h |-> totalSeconds \div 3600, m |-> (totalSeconds % 3600) \div 60,
      s |-> totalSeconds % 60]

\* fullText.split(/\s+/).length
WordCount(text) ==
  1 + Cardinality({i \in 1..Len(text) : text[i] = " " /\ (i = 1 \/ text[i - 1] # " ")})

\* PreviewOf without the truncation
PreviewWhole(fullText, previewLength) == fullText

\* fullText.length > previewLength ? fullText.substring(0, previewLength) + '...' : fullText
PreviewOf(fullText, previewLength) ==
  IF Len(fullText) > previewLength
  THEN Substring0(fullText, previewLength) \o Ellipsis
  ELSE fullText

\* buildMetadataResponse
buildMetadataResponse(transcript, previewLength, cached) ==
  LET fullText == transcript.fullTranscript
      durationMs == getVideoDurationMs(transcript.transcriptWithTimeCodes)
  IN [message |-> IF cached THEN "Transcript already exists in database"
                  ELSE "Transcript fetched and saved successfully",
      cached |-> cached,
      videoId |-> transcript.videoId,
      title |-> transcript.title,
      metadata |-> [wordCount |-> WordCount(fullText),
                    characterCount |-> Len(fullText),
                    duration |-> formatTime(durationMs),
                    durationSeconds |-> durationMs \div 1000],
      preview |-> PreviewOf(fullText, previewLength),
      usage |-> "Use get_transcript with videoId"]

(***************************************************************************)
(* fetch_transcript: one invocation per process.  pc[p] is the await the   *)
(* invocation of p is parked at, inv[p] its local variables, upstream[p]   *)
(* the upstream requests it has issued so far.  ext is the outcome of the  *)
(* most recent fetchTranscript call that ended, until a later tool call    *)
(* returns; req and resp are the most recent tool call that returned and   *)
(* its result, until the next fetch_transcript call is accepted.           *)
(***************************************************************************)
InvIdle ==
  [videoIdOrUrl |-> [form |-> "id", id |-> <<>>], videoId |-> <<>>, title |-> Undefined,
   playability |-> Undefined, tracks |-> <<>>, track |-> Undefined, captionUrl |-> <<>>,
   xml |-> Undefined, status |-> 0, payload |-> Undefined, pages |-> <<>>]

\* the outcome of fetchTranscript, with what the call had seen when it ended: the status of
\* the last upstream response, the upstream requests issued, and either the playability
\* status and the caption tracks with the chosen one (no caption document answered) or the
\* caption document
Outcome(kind, e, data, seen, requests) ==
  [kind |-> kind, error |-> e, data |-> data,
   playability |-> seen.playability, tracks |-> seen.tracks, track |-> seen.track, xml |-> seen.xml,
   status |-> seen.status, pages |-> seen.pages, requests |-> requests]

NoOutcome == Outcome("none", Err("", ""), Undefined, InvIdle, <<>>)

Failure(e, seen, requests) == Outcome("error", e, Undefined, seen, requests)

Success(data, seen, requests) == Outcome("record", Err("", ""), Some(data), seen, requests)

NoRequest == [tool |-> "none", args |-> <<>>]

\* the MCP session registry, the wall clock and the HTTP requests in flight
ServerVars == <<sessions, closed, uuids, clock, mcp, mcpOut>>

\* the OAuth collections and the token requests in flight
OAuthVars == <<oauthCodes, oauthTokens, minted, grant, grantOut>>

PureVars == <<fin, fout, ServerVars, OAuthVars>>

MaxMcpRequests == 2
McpProcs == 1..MaxMcpRequests

\* an HTTP request slot of the MCP endpoint with nothing in flight
McpIdle == [pc |-> "idle", header |-> <<>>, sid |-> 0, createdAt |-> 0]

NoMcpResponse == [q |-> 0, status |-> 0, code |-> 0, header |-> <<>>]

MaxGrantRequests == 2
GrantProcs == 1..MaxGrantRequests

\* a request slot of the token endpoint with nothing in flight
GrantIdle == [pc |-> "idle", body |-> <<>>, found |-> 0]

NoGrantResponse == [status |-> 0, error |-> "", pair |-> 0]

InitServer ==
  /\ sessions = {}
  /\ closed = {}
  /\ uuids = 0
  /\ clock = 0
  /\ mcp = [q \in McpProcs |-> McpIdle]
  /\ mcpOut = NoMcpResponse

InitOAuthEmpty ==
  /\ oauthCodes = <<>>
  /\ oauthTokens = <<>>
  /\ minted = 0
  /\ grant = [g \in GrantProcs |-> GrantIdle]
  /\ grantOut = NoGrantResponse

\* handleToolCall itself throws
Thrown(name, message) == [tool |-> name, body |-> [thrown |-> TRUE, message |-> message]]

\* Reject letting the handler's error escape from handleToolCall
RejectPropagating(name, args, message) ==
  /\ resp' = Thrown(name, message)
  /\ req' = [tool |-> name, args |-> args]
  /\ ext' = NoOutcome
  /\ UNCHANGED <<cfg, store, pc, inv, upstream, PureVars>>

\* the handler throws before any await: handleToolCall returns the error result
Reject(name, args, message) ==
  /\ resp' = ToolError(name, message)
  /\ req' = [tool |-> name, args |-> args]
  /\ ext' = NoOutcome
  /\ UNCHANGED <<cfg, store, pc, inv, upstream, PureVars>>

\* the invocation of process p ends with the given result
Return(p, result) ==
  /\ resp' = result
  /\ req' = [tool |-> "fetch_transcript", args |-> inv[p].videoIdOrUrl]
  /\ pc' = [pc EXCEPT ![p] = "idle"]
  /\ inv' = [inv EXCEPT ![p] = InvIdle]
  /\ upstream' = [upstream EXCEPT ![p] = <<>>]

\* Fail leaving a record without transcript behind
FailStoring(p, e, seen) ==
  /\ ext' = Failure(e, seen, upstream[p])
  /\ store' = Append(store, [videoId |-> inv[p].videoId])
  /\ Return(p, ToolError("fetch_transcript", Wrapped(inv[p].videoId, e)))
  /\ UNCHANGED <<cfg, PureVars>>

\* Fail starting the pipeline again from the watch page instead of throwing
FailRetry(p, e, seen) ==
  /\ upstream' = [upstream EXCEPT ![p] = Append(@, "watch")]
  /\ pc' = [pc EXCEPT ![p] = "page"]
  /\ UNCHANGED <<cfg, store, inv, ext, req, resp, PureVars>>

\* fetchTranscript throws e: the invocation ends with an error result
Fail(p, e, seen) ==
  /\ ext' = Failure(e, seen, upstream[p])
  /\ Return(p, ToolError("fetch_transcript", Wrapped(inv[p].videoId, e)))
  /\ UNCHANGED <<cfg, store, PureVars>>

\* issue the next upstream request and park at its await
Issue(p, request, at, newInv) ==
  /\ upstream' = [upstream EXCEPT ![p] = Append(@, request)]
  /\ pc' = [pc EXCEPT ![p] = at]
  /\ inv' = [inv EXCEPT ![p] = newInv]
  /\ UNCHANGED <<cfg, store, ext, req, resp, PureVars>>

\* FetchCall taking the input as the identifier, without the extractYouTubeID check
FetchCallUnresolved(p, videoIdOrUrl) ==
  /\ pc[p] = "idle"
  /\ IF Len(videoIdOrUrl.id) < 1
     THEN Reject("fetch_transcript", videoIdOrUrl, ValidationMessage("fetch_transcript"))
     ELSE /\ pc' = [pc EXCEPT ![p] = "find"]
          /\ inv' = [inv EXCEPT ![p] = [InvIdle EXCEPT !.videoIdOrUrl = videoIdOrUrl,
                                                       !.videoId = videoIdOrUrl.id]]
          /\ req' = NoRequest
          /\ resp' = NoResult
          /\ ext' = NoOutcome
          /\ UNCHANGED <<cfg, store, upstream, PureVars>>

\* handleFetchTranscript up to the findTranscript await
FetchCall(p, videoIdOrUrl) ==
  /\ pc[p] = "idle"
  /\ IF Len(videoIdOrUrl.id) < 1
     THEN Reject("fetch_transcript", videoIdOrUrl, ValidationMessage("fetch_transcript"))
     ELSE IF ~IsDefined(extractYouTubeID(videoIdOrUrl))
     THEN Reject("fetch_transcript", videoIdOrUrl, InvalidIdMessage(videoIdOrUrl))
     ELSE /\ pc' = [pc EXCEPT ![p] = "find"]
          /\ inv' = [inv EXCEPT ![p] = [InvIdle EXCEPT !.videoIdOrUrl = videoIdOrUrl,
                                                       !.videoId = extractYouTubeID(videoIdOrUrl)[1]]]
          /\ req' = NoRequest
          /\ resp' = NoResult
          /\ ext' = NoOutcome
          /\ UNCHANGED <<cfg, store, upstream, PureVars>>

\* findTranscript answers: the cached result, or service.getTranscript starts the pipeline
FetchFind(p, impl) ==
  /\ pc[p] = "find"
  /\ LET existingTranscript == findTranscript(store, inv[p].videoId)
     IN IF IsDefined(existingTranscript)
        THEN /\ Return(p, [tool |-> "fetch_transcript",
                              body |-> buildMetadataResponse(existingTranscript[1],
                                         OrDefault(cfg.previewLength, 500), TRUE)])
             /\ ext' = NoOutcome
             /\ UNCHANGED <<cfg, store, PureVars>>
        ELSE IF ~IsValidId(inv[p].videoId)
        THEN /\ Return(p, ToolError("fetch_transcript",
                                    Err("No transcript data returned from YouTube", "")))
             /\ ext' = NoOutcome
             /\ UNCHANGED <<cfg, store, PureVars>>
        ELSE IF impl = "innertube"
        THEN Issue(p, "watch", "page", inv[p])
        ELSE Issue(p, "basicInfo", "basicInfo", inv[p])

\* titleMatch[1].replace(' - YouTube', '').trim(), as an optional
PageTitle(html) ==
  IF IsDefined(html.title) THEN Some(ReplaceFirst(html.title[1], " - YouTube")) ELSE Undefined

\* fetchHtml answers (fetchVideoHtml), then title and API key extraction
\* what fetchVideoHtml looks for in a page: the consent form marker and the consent value
ConsentOf(html) == [marker |-> html.consentForm, value |-> html.v]

\* PageResponse fetching the page again whenever the answer is a consent page
PageResponseLoop(p, r) ==
  /\ pc[p] \in {"page", "page2"}
  /\ LET got == [inv[p] EXCEPT !.status = r.status, !.pages = Append(@, ConsentOf(r.html))]
     IN IF r.status = 429 THEN Fail(p, RateLimited, got)
        ELSE IF ~IsOk(r.status) THEN Fail(p, PageFailed(r.status), got)
        ELSE IF r.html.consentForm /\ IsDefined(r.html.v)
        THEN Issue(p, "watch+cookie", "page2", got)
        ELSE IF ~IsDefined(r.html.apiKey) THEN Fail(p, NoApiKey, got)
        ELSE Issue(p, "player", "player", [got EXCEPT !.title = PageTitle(r.html)])

PageResponse(p, r) ==
  /\ pc[p] \in {"page", "page2"}
  /\ LET got == [inv[p] EXCEPT !.status = r.status, !.pages = Append(@, ConsentOf(r.html))]
     IN IF r.status = 429 THEN Fail(p, RateLimited, got)
        ELSE IF ~IsOk(r.status) THEN Fail(p, PageFailed(r.status), got)
        ELSE IF pc[p] = "page" /\ r.html.consentForm /\ IsDefined(r.html.v)
        THEN Issue(p, "watch+cookie", "page2", got)
        ELSE IF ~IsDefined(r.html.apiKey) THEN Fail(p, NoApiKey, got)
        ELSE Issue(p, "player", "player", [got EXCEPT !.title = PageTitle(r.html)])

\* PlayabilityReason without the upstream reason
PlayabilityReasonUnknown(pl) == "Unknown error"

\* playabilityStatus?.reason || 'Unknown error'
PlayabilityReason(pl) ==
  IF IsDefined(pl) /\ IsDefined(pl[1].reason) THEN pl[1].reason[1] ELSE "Unknown error"

\* fetchInnertubeData answers, then playability, track selection, PoToken check
PlayerResponse(p, r) ==
  /\ pc[p] = "player"
  /\ LET got == [inv[p] EXCEPT !.status = r.status, !.playability = r.data.playabilityStatus]
     IN IF r.status = 429 THEN Fail(p, RateLimited, got)
        ELSE IF ~IsOk(r.status) THEN Fail(p, InnertubeFailed(r.status), got)
        ELSE IF ~(IsDefined(r.data.playabilityStatus)
                    /\ r.data.playabilityStatus[1].status = "OK")
        THEN Fail(p, NotPlayable(PlayabilityReason(r.data.playabilityStatus)), got)
        ELSE IF ~IsDefined(r.data.captionTracks) \/ Len(r.data.captionTracks[1]) = 0
        THEN Fail(p, NoCaptions, got)
        ELSE LET captionTracks == r.data.captionTracks[1]
                 track == SelectTrack(captionTracks)
                 chosen == [got EXCEPT !.tracks = captionTracks, !.track = Some(track)]
             IN IF HasPoToken(track) THEN Fail(p, PoTokenRequired, chosen)
                ELSE Issue(p, "caption", "caption",
                           [chosen EXCEPT !.captionUrl = CaptionUrl(track)])

\* the record fetchTranscriptFromYouTube returns
TranscriptData(videoId, title, segments) ==
  [videoId |-> videoId, title |-> title,
   fullTranscript |-> Join(SegmentTexts(segments), Space),
   transcriptWithTimeCodes |-> segments]

\* transcriptData.title || `YouTube Video ${videoId}`
PayloadTitle(title, videoId) ==
  IF IsDefined(title) /\ Len(title[1]) > 0 THEN title[1] ELSE <<"YouTube Video ">> \o videoId

\* handleFetchTranscript after service.getTranscript returned: the payload to save
Payload(videoId, data) ==
  [videoId |-> videoId, title |-> PayloadTitle(data.title, videoId),
   fullTranscript |-> data.fullTranscript,
   transcriptWithTimeCodes |-> data.transcriptWithTimeCodes]

\* fetchTranscript returned data: the handler checks it and parks at saveTranscript
Extracted(p, data, seen) ==
  /\ ext' = Success(data, seen, upstream[p])
  /\ IF Len(data.fullTranscript) = 0
     THEN Return(p, ToolError("fetch_transcript",
                              Err("No transcript data returned from YouTube", "")))
     ELSE /\ pc' = [pc EXCEPT ![p] = "save"]
          /\ inv' = [inv EXCEPT ![p] =
                       [InvIdle EXCEPT !.videoIdOrUrl = inv[p].videoIdOrUrl,
                                       !.videoId = inv[p].videoId,
                                       !.payload = Some(Payload(inv[p].videoId, data))]]
          /\ UNCHANGED <<req, resp, upstream>>
  /\ UNCHANGED <<cfg, store, PureVars>>

\* CaptionResponse without the segments.length === 0 check
CaptionResponseUnchecked(p, r) ==
  /\ pc[p] = "caption"
  /\ LET got == [InvIdle EXCEPT !.status = r.status, !.xml = r.body]
     IN IF ~IsOk(r.status) THEN Fail(p, TranscriptFailed(r.status), got)
        ELSE IF ~IsDefined(r.body) THEN Fail(p, TranscriptEmpty, got)
        ELSE Extracted(p, TranscriptData(inv[p].videoId, inv[p].title,
                                         parseTranscriptXml(r.body[1])), got)

\* the caption document answers, then parsing and assembly
CaptionResponse(p, r) ==
  /\ pc[p] = "caption"
  /\ LET got == [InvIdle EXCEPT !.status = r.status, !.xml = r.body]
     IN IF ~IsOk(r.status) THEN Fail(p, TranscriptFailed(r.status), got)
        ELSE IF ~IsDefined(r.body) THEN Fail(p, TranscriptEmpty, got)
        ELSE LET segments == parseTranscriptXml(r.body[1])
             IN IF Len(segments) = 0 THEN Fail(p, ParseFailed, got)
                ELSE Extracted(p, TranscriptData(inv[p].videoId, inv[p].title, segments), got)

\* saveTranscript answers: the document is created and the metadata returned
SaveDone(p) ==
  /\ pc[p] = "save"
  /\ store' = saveTranscript(store, inv[p].payload[1])
  /\ Return(p, [tool |-> "fetch_transcript",
                body |-> buildMetadataResponse(inv[p].payload[1],
                           OrDefault(cfg.previewLength, 500), FALSE)])
  /\ ext' = NoOutcome
  /\ UNCHANGED <<cfg, PureVars>>

(***************************************************************************)
(* The youtubei.js version of utils/fetch-transcript: getBasicInfo, then   *)
(* the timedtext document.  A track without base_url has baseUrl = <<>>.   *)
(***************************************************************************)
BasicInfo(threw, title, tr, reason) ==
  [threw |-> threw, title |-> title, captionTracks |-> tr, reason |-> reason]

BasicInfos(lists) ==
  {BasicInfo(TRUE, Undefined, Undefined, Undefined),
   BasicInfo(FALSE, Undefined, Undefined, Some("Sign in to confirm you're not a bot")),
   BasicInfo(FALSE, Undefined, Undefined, Some("Video unavailable")),
   BasicInfo(FALSE, Some(<<"R", "i", "c", "k">>), Some(<<Track("en", "manual", <<>>)>>), Undefined)}
    \cup {BasicInfo(FALSE, t, Some(l), Undefined) :
            t \in {Undefined, Some(<<"R", "i", "c", "k">>)}, l \in lists}

\* reason.includes('Sign in') on the reasons of the model
IncludesSignIn(reason) == reason = "Sign in to confirm you're not a bot"

\* Innertube.create and client.getBasicInfo answer, then track selection
BasicInfoResponse(p, r) ==
  /\ pc[p] = "basicInfo"
  /\ IF r.threw THEN Fail(p, LibraryError, inv[p])
     ELSE IF ~IsDefined(r.captionTracks) \/ Len(r.captionTracks[1]) = 0
     THEN IF IsDefined(r.reason) /\ IncludesSignIn(r.reason[1])
          THEN Fail(p, SignInRequired, inv[p])
          ELSE Fail(p, NoCaptions, inv[p])
     ELSE LET captionTracks == r.captionTracks[1]
              englishTrack == SelectTrackYoutubei(captionTracks)
              chosen == [inv[p] EXCEPT !.tracks = captionTracks, !.track = Some(englishTrack),
                                       !.title = r.title]
          IN IF Len(englishTrack.baseUrl) = 0 THEN Fail(p, NoTrackUrl, chosen)
             ELSE Issue(p, "timedtext", "timedtext",
                        [chosen EXCEPT !.captionUrl = englishTrack.baseUrl])

\* fetchTimedTextXml answers, then parseTimedTextXml and assembly
TimedTextResponse(p, r) ==
  /\ pc[p] = "timedtext"
  /\ LET got == [InvIdle EXCEPT !.status = r.status, !.xml = r.body]
     IN IF ~IsOk(r.status) THEN Fail(p, TimedTextFailed(r.status), got)
        ELSE IF ~IsDefined(r.body) THEN Fail(p, TimedTextEmpty, got)
        ELSE LET segments == parseTimedTextXml(r.body[1])
             IN IF Len(segments) = 0 THEN Fail(p, ParseFailedXml, got)
                ELSE Extracted(p, TranscriptData(inv[p].videoId, inv[p].title, segments), got)

(***************************************************************************)
(* get_transcript.  The handler runs without interleaving once             *)
(* findTranscript has answered, so one action models the call.             *)
(***************************************************************************)
EmptyObject == [x \in {} |-> 0]

\* a field that is only set under a condition
FieldIf(cond, obj) == IF cond THEN obj ELSE EmptyObject

RECURSIVE EntriesInRangeClosed(_, _, _)
\* EntriesInRange keeping an entry that starts exactly at the end bound
EntriesInRangeClosed(timecodes, startTimeMs, endTimeMs) ==
  IF Len(timecodes) = 0 THEN <<>>
  ELSE (IF timecodes[1].start >= startTimeMs /\ timecodes[1].start <= endTimeMs
        THEN <<timecodes[1]>> ELSE <<>>)
       \o EntriesInRangeClosed(Tail(timecodes), startTimeMs, endTimeMs)

RECURSIVE EntriesInRange(_, _, _)
\* timecodes.filter((entry) => entry.start >= startTimeMs && entry.start < endTimeMs)
EntriesInRange(timecodes, startTimeMs, endTimeMs) ==
  IF Len(timecodes) = 0 THEN <<>>
  ELSE (IF timecodes[1].start >= startTimeMs /\ timecodes[1].start < endTimeMs
        THEN <<timecodes[1]>> ELSE <<>>)
       \o EntriesInRange(Tail(timecodes), startTimeMs, endTimeMs)

\* getTranscriptForTimeRange without the end bound
getTranscriptForTimeRangeOpen(timecodes, startTimeMs, endTimeMs) ==
  LET entries == EntriesInRange(timecodes, startTimeMs, startTimeMs + endTimeMs + 1000000)
  IN [text |-> Join(SegmentTexts(entries), Space), entries |-> entries]

\* getTranscriptForTimeRange
getTranscriptForTimeRange(timecodes, startTimeMs, endTimeMs) ==
  LET entries == EntriesInRange(timecodes, startTimeMs, endTimeMs)
  IN [text |-> Join(SegmentTexts(entries), Space), entries |-> entries]

\* Math.ceil(a / b) for a >= 0, b > 0
CeilDiv(a, b) == (a + b - 1) \div b

\* x || fallback on an optional number
OptOr(o, fallback) == IF IsDefined(o) /\ o[1] # 0 THEN o[1] ELSE fallback

IsTrue(o) == IsDefined(o) /\ o[1]

\* GetBranch testing chunkIndex before the time range
GetBranchChunkFirst(args, fullText, maxFullTranscriptLength) ==
  IF IsDefined(args.chunkIndex) THEN "chunk"
  ELSE IF IsDefined(args.startTime) \/ IsDefined(args.endTime) THEN "timeRange"
  ELSE IF IsTrue(args.includeFullTranscript) \/ Len(fullText) <= maxFullTranscriptLength
  THEN "full"
  ELSE "preview"

\* which branch of handleGetTranscript a request takes
GetBranch(args, fullText, maxFullTranscriptLength) ==
  IF IsDefined(args.startTime) \/ IsDefined(args.endTime) THEN "timeRange"
  ELSE IF IsDefined(args.chunkIndex) THEN "chunk"
  ELSE IF IsTrue(args.includeFullTranscript) \/ Len(fullText) <= maxFullTranscriptLength
  THEN "full"
  ELSE "preview"

\* handleGetTranscript on a found transcript
GetResponse(transcript, args, config) ==
  LET chunkSizeSeconds == OptOr(args.chunkSize, OrDefault(config.chunkSizeSeconds, 300))
      previewLength == OrDefault(config.previewLength, 500)
      maxFullTranscriptLength == OrDefault(config.maxFullTranscriptLength, 50000)
      timecodes == transcript.transcriptWithTimeCodes
      fullText == transcript.fullTranscript
      durationMs == getVideoDurationMs(timecodes)
      totalChunks == CeilDiv(durationMs, chunkSizeSeconds * 1000)
      includeTimecodes == IsTrue(args.includeTimecodes)
      branch == GetBranch(args, fullText, maxFullTranscriptLength)
      response ==
        [videoId |-> transcript.videoId, title |-> transcript.title,
         metadata |-> [wordCount |-> WordCount(fullText),
                       characterCount |-> Len(fullText),
                       duration |-> formatTime(durationMs),
                       durationSeconds |-> durationMs \div 1000,
                       totalChunks |-> totalChunks,
                       chunkSizeSeconds |-> chunkSizeSeconds]]
      startMs == OptOr(args.startTime, 0) * 1000
      endMs == IF IsDefined(args.endTime) THEN args.endTime[1] * 1000 ELSE durationMs
      range == getTranscriptForTimeRange(timecodes, startMs, endMs)
      chunkIndex == args.chunkIndex[1]
      chunkStartMs == chunkIndex * chunkSizeSeconds * 1000
      chunkEndMs == Min((chunkIndex + 1) * chunkSizeSeconds * 1000, durationMs)
      chunk == getTranscriptForTimeRange(timecodes, chunkStartMs, chunkEndMs)
  IN CASE branch = "timeRange" ->
            response
              @@ [timeRange |-> [startTime |-> OptOr(args.startTime, 0),
                                 endTime |-> OptOr(args.endTime, durationMs \div 1000),
                                 startFormatted |-> formatTime(startMs),
                                 endFormatted |-> formatTime(endMs)],
                  transcript |-> range.text]
              @@ FieldIf(includeTimecodes, [transcriptWithTimeCodes |-> range.entries])
       [] branch = "chunk" ->
            IF chunkStartMs >= durationMs
            THEN response @@ [error |-> [chunkIndex |-> chunkIndex, totalChunks |-> totalChunks]]
            ELSE response
                   @@ [chunk |-> [index |-> chunkIndex, totalChunks |-> totalChunks,
                                  startTime |-> chunkStartMs \div 1000,
                                  endTime |-> chunkEndMs \div 1000,
                                  startFormatted |-> formatTime(chunkStartMs),
                                  endFormatted |-> formatTime(chunkEndMs)],
                       transcript |-> chunk.text]
                   @@ FieldIf(includeTimecodes, [transcriptWithTimeCodes |-> chunk.entries])
                   @@ FieldIf(chunkIndex < totalChunks - 1, [nextChunk |-> chunkIndex + 1])
                   @@ FieldIf(chunkIndex > 0, [previousChunk |-> chunkIndex - 1])
       [] branch = "full" ->
            response
              @@ [transcript |-> fullText]
              @@ FieldIf(includeTimecodes, [transcriptWithTimeCodes |-> timecodes])
              @@ (IF IsTrue(args.includeFullTranscript) /\ Len(fullText) > maxFullTranscriptLength
                  THEN [warning |-> "Full transcript included."]
                  ELSE FieldIf(Len(fullText) <= maxFullTranscriptLength,
                               [note |-> "Full transcript auto-loaded."]))
       [] OTHER ->
            response
              @@ [preview |-> PreviewOf(fullText, previewLength),
                  isLargeTranscript |-> TRUE,
                  usage |-> [pagination |-> [last |-> totalChunks - 1,
                                             chunkSizeSeconds |-> chunkSizeSeconds]]]

NotFound(name, videoId) ==
  [tool |-> name,
   body |-> [error |-> TRUE, message |-> Err("No transcript found for video ID", ""),
             videoId |-> videoId]]

\* the result of a handler that ran to completion
Answer(name, args, body) ==
  /\ resp' = body
  /\ req' = [tool |-> name, args |-> args]
  /\ ext' = NoOutcome
  /\ UNCHANGED <<cfg, store, pc, inv, upstream, PureVars>>

\* handleGetTranscript starting an extraction when no record is stored
GetTranscriptFetching(args) ==
  /\ IsDefined(extractYouTubeID(args.videoId))
  /\ ~IsDefined(findTranscript(store, extractYouTubeID(args.videoId)[1]))
  /\ resp' = NotFound("get_transcript", extractYouTubeID(args.videoId)[1])
  /\ req' = [tool |-> "get_transcript", args |-> args]
  /\ ext' = NoOutcome
  /\ upstream' = [upstream EXCEPT ![1] = Append(@, "watch")]
  /\ UNCHANGED <<cfg, store, pc, inv, PureVars>>

\* the result handleGetTranscript produces for validated arguments
GetTranscriptResult(args) ==
  IF Len(args.videoId.id) < 1
  THEN ToolError("get_transcript", ValidationMessage("get_transcript"))
  ELSE IF ~IsDefined(extractYouTubeID(args.videoId))
  THEN ToolError("get_transcript", InvalidIdMessage(args.videoId))
  ELSE LET videoId == extractYouTubeID(args.videoId)[1]
           transcript == findTranscript(store, videoId)
       IN IF ~IsDefined(transcript)
          THEN NotFound("get_transcript", videoId)
          ELSE [tool |-> "get_transcript", body |-> GetResponse(transcript[1], args, cfg)]

\* handleGetTranscript
GetTranscript(args) == Answer("get_transcript", args, GetTranscriptResult(args))

(***************************************************************************)
(* search_transcript: tokenizer, Segmenter (createSegments), BM25 ranker.  *)
(***************************************************************************)
UpperChars ==
  <<"A", "B", "C", "D", "E", "F", "G", "H", "I", "J", "K", "L", "M", "N", "O", "P", "Q",
    "R", "S", "T", "U", "V", "W", "X", "Y", "Z">>

LowerChars ==
  <<"a", "b", "c", "d", "e", "f", "g", "h", "i", "j", "k", "l", "m", "n", "o", "p", "q",
    "r", "s", "t", "u", "v", "w", "x", "y", "z">>

\* String.prototype.toLowerCase on one character
ToLowerCase(c) ==
  IF \E i \in 1..Len(UpperChars) : UpperChars[i] = c
  THEN LowerChars[CHOOSE i \in 1..Len(UpperChars) : UpperChars[i] = c]
  ELSE c

\* \w
IsWordChar(c) == c \in IdChars \ {"-"}

\* toLowerCase, then every character that is neither \w nor \s becomes a space
NormalizeChar(c) ==
  LET l == ToLowerCase(c) IN IF IsWordChar(l) \/ l = " " THEN l ELSE " "

RECURSIVE WordsFrom(_, _)
\* the maximal runs of non-space characters of c from position i on, in order
WordsFrom(c, i) ==
  LET starts == {k \in i..Len(c) : c[k] # " " /\ (k = 1 \/ c[k - 1] = " ")}
  IN IF starts = {} THEN <<>>
     ELSE LET b == CHOOSE k \in starts : \A j \in starts : k <= j
              ends == {k \in b..Len(c) : k = Len(c) \/ c[k + 1] = " "}
              e == CHOOSE k \in ends : \A j \in ends : k <= j
          IN <<SubSeq(c, b, e)>> \o WordsFrom(c, e + 1)

LongerThanOne(word) == Len(word) > 1

\* tokenize
tokenize(text) ==
  SelectSeq(WordsFrom([i \in 1..Len(text) |-> NormalizeChar(text[i])], 1), LongerThanOne)

\* last entry's end || start + (duration || 0)
GroupEndTime(group) ==
  LET lastEntry == group[Len(group)]
  IN IF lastEntry.end # 0 THEN lastEntry.end ELSE lastEntry.start + lastEntry.duration

RECURSIVE CreateGroupsDrop(_, _, _, _, _)
\* CreateGroups opening each new window empty, without the entry that opened it
CreateGroupsDrop(timecodes, i, segmentStartTime, currentSegment, segmentDurationMs) ==
  IF i > Len(timecodes)
  THEN IF Len(currentSegment) > 0
       THEN <<[entries |-> currentSegment, start |-> segmentStartTime]>> ELSE <<>>
  ELSE LET entry == timecodes[i]
           segmentEndTime == segmentStartTime + segmentDurationMs
       IN IF entry.start < segmentEndTime
          THEN CreateGroupsDrop(timecodes, i + 1, segmentStartTime,
                                Append(currentSegment, entry), segmentDurationMs)
          ELSE (IF Len(currentSegment) > 0
                THEN <<[entries |-> currentSegment, start |-> segmentStartTime]>> ELSE <<>>)
               \o CreateGroupsDrop(timecodes, i + 1, entry.start, <<>>, segmentDurationMs)

RECURSIVE CreateGroupsInclusive(_, _, _, _, _)
\* CreateGroups keeping an entry that starts exactly at the window's nominal end
CreateGroupsInclusive(timecodes, i, segmentStartTime, currentSegment, segmentDurationMs) ==
  IF i > Len(timecodes)
  THEN IF Len(currentSegment) > 0
       THEN <<[entries |-> currentSegment, start |-> segmentStartTime]>> ELSE <<>>
  ELSE LET entry == timecodes[i]
           segmentEndTime == segmentStartTime + segmentDurationMs
       IN IF entry.start <= segmentEndTime
          THEN CreateGroupsInclusive(timecodes, i + 1, segmentStartTime,
                                     Append(currentSegment, entry), segmentDurationMs)
          ELSE (IF Len(currentSegment) > 0
                THEN <<[entries |-> currentSegment, start |-> segmentStartTime]>> ELSE <<>>)
               \o CreateGroupsInclusive(timecodes, i + 1, entry.start, <<entry>>,
                                        segmentDurationMs)

RECURSIVE CreateGroups(_, _, _, _, _)
\* the loop of createSegments: the runs of entries (currentSegment) it closes
CreateGroups(timecodes, i, segmentStartTime, currentSegment, segmentDurationMs) ==
  IF i > Len(timecodes)
  THEN IF Len(currentSegment) > 0
       THEN <<[entries |-> currentSegment, start |-> segmentStartTime]>> ELSE <<>>
  ELSE LET entry == timecodes[i]
           segmentEndTime == segmentStartTime + segmentDurationMs
       IN IF entry.start < segmentEndTime
          THEN CreateGroups(timecodes, i + 1, segmentStartTime,
                            Append(currentSegment, entry), segmentDurationMs)
          ELSE (IF Len(currentSegment) > 0
                THEN <<[entries |-> currentSegment, start |-> segmentStartTime]>> ELSE <<>>)
               \o CreateGroups(timecodes, i + 1, entry.start, <<entry>>, segmentDurationMs)

\* the runs of entries createSegments forms
SegmentGroups(timecodes, segmentDurationMs) ==
  IF Len(timecodes) = 0 THEN <<>>
  ELSE CreateGroups(timecodes, 1, timecodes[1].start, <<>>, segmentDurationMs)

\* the SearchSegment pushed for one run
ToSearchSegment(group) ==
  [text |-> Join(SegmentTexts(group.entries), Space),
   startTime |-> group.start \div 1000,
   endTime |-> GroupEndTime(group.entries) \div 1000,
   startFormatted |-> formatTime(group.start),
   endFormatted |-> formatTime(GroupEndTime(group.entries))]

\* createSegments
createSegments(timecodes, segmentDurationMs) ==
  LET groups == SegmentGroups(timecodes, segmentDurationMs)
  IN [i \in 1..Len(groups) |-> ToSearchSegment(groups[i])]

\* scores are fixed-point numbers in units of 1/Scale
Scale == 10000

LnTerms == 14

RECURSIVE AtanhSeries(_, _, _)
\* sum of z^(2k+1)/(2k+1) for k = k0..LnTerms, power = z^(2k0+1)
AtanhSeries(power, z2, k) ==
  IF k > LnTerms \/ power = 0 THEN 0
  ELSE power \div (2 * k + 1) + AtanhSeries((power * z2) \div Scale, z2, k + 1)

\* Math.log(a / b) for a >= b > 0, as 2 * atanh((a - b) / (a + b))
LnFixed(a, b) ==
  LET z == ((a - b) * Scale) \div (a + b)
  IN 2 * AtanhSeries(z, (z * z) \div Scale, 0)

Contains(tokens, term) == \E i \in 1..Len(tokens) : tokens[i] = term

\* calculateIDF for one term: log((N - n + 0.5) / (n + 0.5) + 1)
calculateIDF(segments, term) ==
  LET N == Len(segments)
      docsWithTerm == Cardinality({i \in 1..N : Contains(tokenize(segments[i].text), term)})
  IN LnFixed(2 * N + 2, 2 * docsWithTerm + 1)

RECURSIVE SumLengths(_)
SumLengths(segments) ==
  IF Len(segments) = 0 THEN 0
  ELSE Len(tokenize(segments[1].text)) + SumLengths(Tail(segments))

TermFreq(tokens, term) == Cardinality({i \in 1..Len(tokens) : tokens[i] = term})

RECURSIVE bm25ScoreNoTf(_, _, _, _)
\* bm25Score without the term frequency in the numerator
bm25ScoreNoTf(segmentTokens, queryTokens, segments, totalLength) ==
  IF Len(queryTokens) = 0 THEN 0
  ELSE LET term == queryTokens[1]
           termFreq == TermFreq(segmentTokens, term)
           numerator == 20 * totalLength
           denominator == 8 * termFreq * totalLength + 3 * totalLength
                            + 9 * Len(segmentTokens) * Len(segments)
       IN (IF termFreq > 0
           THEN (calculateIDF(segments, term) * numerator) \div denominator
           ELSE 0)
          + bm25ScoreNoTf(segmentTokens, Tail(queryTokens), segments, totalLength)

RECURSIVE bm25Score(_, _, _, _)
\* bm25Score with k1 = 1.5, b = 0.75 and avgDocLength = totalLength / Len(segments):
\* tf * (k1 + 1) / (tf + k1 * (1 - b + b * docLength / avgDocLength))
\*   = 20 * tf * totalLength / (8 * tf * totalLength + 3 * totalLength + 9 * docLength * N)
bm25Score(segmentTokens, queryTokens, segments, totalLength) ==
  IF Len(queryTokens) = 0 THEN 0
  ELSE LET term == queryTokens[1]
           termFreq == TermFreq(segmentTokens, term)
           numerator == 20 * termFreq * totalLength
           denominator == 8 * termFreq * totalLength + 3 * totalLength
                            + 9 * Len(segmentTokens) * Len(segments)
       IN (IF termFreq > 0
           THEN (calculateIDF(segments, term) * numerator) \div denominator
           ELSE 0)
          + bm25Score(segmentTokens, Tail(queryTokens), segments, totalLength)

\* scoredSegments: every segment with its score
ScoreAll(segments, queryTokens) ==
  [i \in 1..Len(segments) |->
     segments[i] @@ [score |-> bm25Score(tokenize(segments[i].text), queryTokens, segments,
                                         SumLengths(segments))]]

\* HasPositiveScore keeping the windows that score zero
HasNonNegativeScore(seg) == seg.score >= 0

HasPositiveScore(seg) == seg.score > 0

RECURSIVE InsertByScore(_, _)
\* insert x after every element whose score is not smaller (stable)
InsertByScore(sorted, x) ==
  IF Len(sorted) = 0 THEN <<x>>
  ELSE IF sorted[1].score >= x.score THEN <<sorted[1]>> \o InsertByScore(Tail(sorted), x)
  ELSE <<x>> \o sorted

RECURSIVE SortByScore(_, _)
\* Array.prototype.sort((a, b) => b.score - a.score): stable, descending
SortByScore(s, n) ==
  IF n = 0 THEN <<>> ELSE InsertByScore(SortByScore(s, n - 1), s[n])

\* filter(score > 0), sort by score, slice(0, maxResults)
Rank(scoredSegments, maxResults) ==
  LET positive == SelectSeq(scoredSegments, HasPositiveScore)
      sorted == SortByScore(positive, Len(positive))
  IN SubSeq(sorted, 1, Min(maxResults, Len(sorted)))

\* Math.round(score * 100) / 100, in hundredths
RoundedScore(score) == (score * 100 + Scale \div 2) \div Scale

ResultOf(r) ==
  [text |-> r.text, startTime |-> r.startTime, endTime |-> r.endTime,
   timeRange |-> <<r.startFormatted, r.endFormatted>>, score |-> RoundedScore(r.score)]

SearchError(message, videoId) ==
  [tool |-> "search_transcript",
   body |-> [error |-> TRUE, message |-> Err(message, ""), videoId |-> videoId]]

\* ClampMaxResults without the upper limit
ClampMaxResultsOpen(maxResultsInput) == Max(OptOr(maxResultsInput, 5), 1)

\* Math.min(Math.max(maxResultsInput || 5, 1), 20)
ClampMaxResults(maxResultsInput) == Min(Max(OptOr(maxResultsInput, 5), 1), 20)

\* SearchResponse scoring the windows whatever the query tokenizes to
SearchResponseUnchecked(transcript, args, config) ==
  LET segmentSeconds == OrDefault(config.searchSegmentSeconds, 30)
      maxResults == ClampMaxResults(args.maxResults)
      timecodes == transcript.transcriptWithTimeCodes
      segments == createSegments(timecodes, segmentSeconds * 1000)
      results == Rank(ScoreAll(segments, tokenize(args.query)), maxResults)
  IN IF Len(timecodes) = 0
     THEN SearchError("Transcript has no timecode data for searching.", transcript.videoId)
     ELSE IF Len(segments) = 0
     THEN SearchError("Could not create searchable segments from transcript.",
                      transcript.videoId)
     ELSE [tool |-> "search_transcript",
           body |-> [videoId |-> transcript.videoId, title |-> transcript.title,
                     query |-> args.query, totalSegments |-> Len(segments),
                     matchingResults |-> Len(results),
                     results |-> [i \in 1..Len(results) |-> ResultOf(results[i])],
                     usage |-> IF Len(results) > 0
                               THEN <<results[1].startTime, results[1].endTime>>
                               ELSE <<>>]]

\* handleSearchTranscript on a found transcript
SearchResponse(transcript, args, config) ==
  LET segmentSeconds == OrDefault(config.searchSegmentSeconds, 30)
      maxResults == ClampMaxResults(args.maxResults)
      timecodes == transcript.transcriptWithTimeCodes
      segments == createSegments(timecodes, segmentSeconds * 1000)
      queryTokens == tokenize(args.query)
      results == Rank(ScoreAll(segments, queryTokens), maxResults)
  IN IF Len(timecodes) = 0
     THEN SearchError("Transcript has no timecode data for searching.", transcript.videoId)
     ELSE IF Len(segments) = 0
     THEN SearchError("Could not create searchable segments from transcript.",
                      transcript.videoId)
     ELSE IF Len(queryTokens) = 0
     THEN [tool |-> "search_transcript",
           body |-> [error |-> TRUE,
                     message |-> Err("Query is empty or contains only stop words.", ""),
                     query |-> args.query]]
     ELSE [tool |-> "search_transcript",
           body |-> [videoId |-> transcript.videoId, title |-> transcript.title,
                     query |-> args.query, totalSegments |-> Len(segments),
                     matchingResults |-> Len(results),
                     results |-> [i \in 1..Len(results) |-> ResultOf(results[i])],
                     usage |-> IF Len(results) > 0
                               THEN <<results[1].startTime, results[1].endTime>>
                               ELSE <<>>]]

\* handleSearchTranscript
SearchTranscript(args) ==
  IF Len(args.videoId.id) < 1
  THEN Reject("search_transcript", args, ValidationMessage("search_transcript"))
  ELSE IF ~IsDefined(extractYouTubeID(args.videoId))
  THEN Reject("search_transcript", args, InvalidIdMessage(args.videoId))
  ELSE LET videoId == extractYouTubeID(args.videoId)[1]
           transcript == findTranscript(store, videoId)
       IN IF ~IsDefined(transcript)
          THEN Answer("search_transcript", args, NotFound("search_transcript", videoId))
          ELSE Answer("search_transcript", args, SearchResponse(transcript[1], args, cfg))

(***************************************************************************)
(* list_transcripts and find_transcripts (default sort createdAt:desc).    *)
(***************************************************************************)
RECURSIVE Reverse(_)
Reverse(s) == IF Len(s) = 0 THEN <<>> ELSE Append(Reverse(Tail(s)), s[1])

\* findMany({limit, start}) on an ordered result
Page(docs, page, pageSize) ==
  SubSeq(docs, (page - 1) * pageSize + 1, Min(page * pageSize, Len(docs)))

Pagination(page, pageSize, total) ==
  [page |-> page, pageSize |-> pageSize, total |-> total,
   pageCount |-> CeilDiv(total, pageSize)]

\* handleListTranscripts
ListTranscripts(args) ==
  LET listed == [i \in 1..Len(store) |->
                   [title |-> store[i].title, videoId |-> store[i].videoId]]
      transcripts == Page(Reverse(listed), args.page, args.pageSize)
  IN Answer("list_transcripts", args,
            [tool |-> "list_transcripts",
             body |-> [data |-> transcripts,
                       pagination |-> Pagination(args.page, args.pageSize, Len(store))]])

TRANSCRIPT_PREVIEW_LENGTH == 244

\* truncateText on a non-empty text
truncateText(text, maxLength) ==
  IF Len(text) <= maxLength THEN text ELSE Substring0(text, maxLength) \o Ellipsis

\* $containsi
ContainsI(hay, needle) ==
  \E i \in 1..(Len(hay) - Len(needle) + 1) :
    \A j \in 1..Len(needle) : ToLowerCase(hay[i + j - 1]) = ToLowerCase(needle[j])

\* the filters handleFindTranscripts builds
MatchesFilters(doc, args) ==
  /\ (Len(args.videoId) > 0 => ContainsI(doc.videoId, args.videoId))
  /\ (Len(args.title) > 0 => ContainsI(doc.title, args.title))
  /\ (Len(args.query) > 0 =>
        \/ ContainsI(doc.title, args.query)
        \/ ContainsI(doc.videoId, args.query)
        \/ ContainsI(doc.fullTranscript, args.query))

\* handleFindTranscripts
FindTranscripts(args) ==
  LET Matches(doc) == MatchesFilters(doc, args)
      allMatching == Reverse(SelectSeq(store, Matches))
      transcripts == Page(allMatching, args.page, args.pageSize)
      processedTranscripts ==
        IF args.includeFullContent THEN transcripts
        ELSE [i \in 1..Len(transcripts) |->
                [transcripts[i] EXCEPT
                   !.fullTranscript = truncateText(@, TRANSCRIPT_PREVIEW_LENGTH)]]
  IN Answer("find_transcripts", args,
            [tool |-> "find_transcripts",
             body |-> [data |-> processedTranscripts,
                       pagination |-> Pagination(args.page, args.pageSize, Len(allMatching))]
                      @@ FieldIf(~args.includeFullContent,
                                 [note |-> "Transcript content truncated to 244 chars."])])

(***************************************************************************)
(* Caller arguments.                                                       *)
(***************************************************************************)
In(form, id) == [form |-> form, id |-> id]

GetArgs(v, full, tc, st, en, ci, cs) ==
  [videoId |-> v, includeFullTranscript |-> full, includeTimecodes |-> tc,
   startTime |-> st, endTime |-> en, chunkIndex |-> ci, chunkSize |-> cs]

OptBools == {Undefined, Some(TRUE)}

GetArgsWide ==
  {GetArgs(v, full, tc, st, en, ci, cs) :
     v \in {In("id", Id1), In("watchUrl", Id2), In("id", IdShort)},
     full \in OptBools, tc \in OptBools,
     st \in {Undefined, Some(0), Some(12)},
     en \in {Undefined, Some(45)},
     ci \in {Undefined, Some(0), Some(1), Some(3)},
     cs \in {Undefined, Some(20)}}

GetArgsNarrow ==
  {GetArgs(In("id", Id1), Undefined, Undefined, Undefined, Undefined, Undefined, Undefined),
   GetArgs(In("watchUrl", Id2), Undefined, Some(TRUE), Some(0), Undefined, Some(0), Undefined),
   GetArgs(In("id", IdShort), Undefined, Undefined, Undefined, Undefined, Undefined, Undefined)}

QNever == <<"N", "e", "v", "e", "r", " ", "g", "o", "n", "n", "a", "!">>

QUp == <<"u", "p">>

QPunct == <<"?", " ", "a", " ", "!">>

QNone == <<"z", "z", "z">>

Queries == {QNever, QUp, QPunct, QNone, <<>>}

SearchArgs(v, q, m) == [videoId |-> v, query |-> q, maxResults |-> m]

SearchArgsWide ==
  {SearchArgs(v, q, m) :
     v \in {In("id", Id1), In("watchUrl", Id2), In("id", IdShort)},
     q \in Queries, m \in {Undefined, Some(0), Some(1), Some(2), Some(25)}}

SearchArgsNarrow ==
  {SearchArgs(In("id", Id1), QNever, Undefined), SearchArgs(In("watchUrl", Id2), QPunct, Undefined)}

ListArgs == {[page |-> 1, pageSize |-> 1]}

FindArgs ==
  {[query |-> q, videoId |-> <<>>, title |-> <<>>, includeFullContent |-> full,
    page |-> 1, pageSize |-> 25] : q \in {QUp}, full \in {FALSE}}

(***************************************************************************)
(* Specifications.                                                         *)
(***************************************************************************)
\* no invocation running
InitProcs ==
  /\ pc = [p \in Procs |-> "idle"]
  /\ inv = [p \in Procs |-> InvIdle]
  /\ upstream = [p \in Procs |-> <<>>]
  /\ ext = NoOutcome
  /\ resp = NoResult
  /\ InitServer
  /\ InitOAuthEmpty

InitCalls ==
  /\ InitProcs
  /\ req = NoRequest
  /\ fin = <<>>
  /\ fout = <<>>

Init ==
  /\ cfg \in Configs
  /\ store = <<>>
  /\ InitCalls

\* the steps of the direct Innertube pipeline of process p
Innertube(p, pages, players, captions) ==
  \/ FetchFind(p, "innertube")
  \/ \E r \in pages : PageResponse(p, r)
  \/ \E r \in players : PlayerResponse(p, r)
  \/ \E r \in captions : CaptionResponse(p, r)

\* the steps of the youtubei.js pipeline of process p
Youtubei(p, infos, captions) ==
  \/ FetchFind(p, "youtubei")
  \/ \E r \in infos : BasicInfoResponse(p, r)
  \/ \E r \in captions : TimedTextResponse(p, r)

InputsNarrow == {In("watchUrl", Id1), In("id", IdShort)}

PageResponsesNarrow == {[status |-> 429, html |-> NoHtml], [status |-> 200, html |-> PlainHtml]}

PlayerResponsesNarrow ==
  {[status |-> 200,
    data |-> PlayerData(Some([status |-> "OK", reason |-> Undefined]),
                        Some(<<Track("en", "manual", UrlSrv3)>>))]}

CaptionResponsesNarrow ==
  {[status |-> 200, body |-> Some(DocText)], [status |-> 200, body |-> Some(DocUnsorted)],
   [status |-> 200, body |-> Some(DocJunk)]}

\* all five tools, concurrent fetch_transcript invocations
Next ==
  \/ \E p \in Procs :
       \/ \E videoIdOrUrl \in InputsNarrow : FetchCall(p, videoIdOrUrl)
       \/ Innertube(p, PageResponsesNarrow, PlayerResponsesNarrow, CaptionResponsesNarrow)
       \/ SaveDone(p)
  \/ \E args \in GetArgsNarrow : GetTranscript(args)
  \/ \E args \in SearchArgsNarrow : SearchTranscript(args)
  \/ \E args \in ListArgs : ListTranscripts(args)
  \/ \E args \in FindArgs : FindTranscripts(args)

Spec == Init /\ [][Next]_vars

(***************************************************************************)
(* One fetch_transcript invocation at a time, with either version of the   *)
(* pipeline: against every page, player status and caption document of the *)
(* model (SpecExtract), and against every caption track list of the model  *)
(* (SpecTracks).                                                           *)
(***************************************************************************)
InputsWide == {In("id", Id1), In("id", IdShort), In("shortUrl", IdBadChar), In("id", <<>>)}

NextExtract ==
  \/ \E videoIdOrUrl \in InputsWide : FetchCall(1, videoIdOrUrl)
  \/ Innertube(1, PageResponses, PlayerResponses({ExampleTracks}), CaptionResponses)
  \/ Youtubei(1, BasicInfos({ExampleTracks}), CaptionResponses)
  \/ SaveDone(1)

SpecExtract == Init /\ [][NextExtract]_vars

PageResponsesFew ==
  {[status |-> 429, html |-> NoHtml], [status |-> 404, html |-> NoHtml],
   [status |-> 200, html |-> PlainHtml]}

CaptionResponsesFew ==
  {[status |-> 429, body |-> Undefined], [status |-> 404, body |-> Undefined],
   [status |-> 200, body |-> Undefined], [status |-> 200, body |-> Some(DocText)]}

NextTracks ==
  \/ \E videoIdOrUrl \in {In("id", Id1)} : FetchCall(1, videoIdOrUrl)
  \/ Innertube(1, PageResponsesFew, PlayerResponses(TrackLists), CaptionResponsesFew)
  \/ Youtubei(1, BasicInfos(TrackLists), CaptionResponsesFew)
  \/ SaveDone(1)

SpecTracks == Init /\ [][NextTracks]_vars

(***************************************************************************)
(* fetch_transcript, get_transcript and search_transcript called with      *)
(* every caller input of the model, well-formed or not.                    *)
(***************************************************************************)
GetArgsInputs ==
  {GetArgs(v, Undefined, Undefined, Undefined, Undefined, Undefined, Undefined) : v \in Inputs}

SearchArgsInputs == {SearchArgs(v, QNever, Undefined) : v \in Inputs}

NextInputs ==
  \/ \E videoIdOrUrl \in Inputs : FetchCall(1, videoIdOrUrl)
  \/ Innertube(1, PageResponsesNarrow, PlayerResponsesNarrow, CaptionResponsesNarrow)
  \/ Youtubei(1, BasicInfos({ExampleTracks}), CaptionResponsesNarrow)
  \/ SaveDone(1)
  \/ \E args \in GetArgsInputs : GetTranscript(args)
  \/ \E args \in SearchArgsInputs : SearchTranscript(args)

SpecInputs == Init /\ [][NextInputs]_vars

(***************************************************************************)
(* The calls of the integration test, through handleToolCall and           *)
(* validateToolInput with the schemas of mcp/schemas/index.ts.             *)
(***************************************************************************)
\* the tool definitions advertised by tools/list
tools ==
  {"fetch_transcript", "list_transcripts", "get_transcript", "search_transcript",
   "find_transcripts"}

\* the names with a handler
toolHandlers ==
  {"fetch_transcript", "list_transcripts", "get_transcript", "search_transcript",
   "find_transcripts"}

\* the names with a schema
ToolSchemas == {"fetch_transcript", "list_transcripts", "get_transcript", "find_transcripts"}

\* schema.safeParse on a name without a schema: the TypeError handleToolCall reports
NoSchema(name) == Err("Cannot read properties of undefined (reading 'safeParse')", name)

\* GetTranscriptSchema: an object with videoId only, other keys are stripped
GetTranscriptSchema(args) ==
  GetArgs(args.videoId, Undefined, Undefined, Undefined, Undefined, Undefined, Undefined)

\* get_transcript through validateToolInput
CallGetTranscript(args) ==
  Answer("get_transcript", args, GetTranscriptResult(GetTranscriptSchema(args)))

\* search_transcript through validateToolInput
CallSearchTranscript(args) ==
  IF "search_transcript" \in ToolSchemas
  THEN SearchTranscript(args)
  ELSE Reject("search_transcript", args, NoSchema("search_transcript"))

\* the get_transcript calls of the test: no options, chunk 0 of 60 s, 30 s to 60 s
GetArgsTest ==
  {GetArgs(In("id", Id1), Undefined, Undefined, Undefined, Undefined, Undefined, Undefined),
   GetArgs(In("id", Id1), Undefined, Undefined, Undefined, Undefined, Some(0), Some(60)),
   GetArgs(In("id", Id1), Undefined, Undefined, Some(30), Some(60), Undefined, Undefined)}

SearchArgsTest == {SearchArgs(In("id", Id1), QNever, Some(3))}

NextTools ==
  \/ FetchCall(1, In("id", Id1))
  \/ Innertube(1, PageResponsesNarrow, PlayerResponsesNarrow, CaptionResponsesNarrow)
  \/ SaveDone(1)
  \/ \E args \in GetArgsTest : CallGetTranscript(args)
  \/ \E args \in SearchArgsTest : CallSearchTranscript(args)
  \/ \E args \in ListArgs : ListTranscripts(args)
  \/ \E args \in FindArgs : FindTranscripts(args)

SpecTools == Init /\ [][NextTools]_vars

\* names that toolHandlers[name] finds on the prototype of the registry object
ObjectPrototype == {"toString"}

\* tool names a client may send
ToolNames == toolHandlers \cup ObjectPrototype \cup {"delete_transcript"}

\* handleToolCall for a name without a registered handler: `Unknown tool` is thrown unless
\* the lookup finds an inherited function, whose value is then returned
UnregisteredTool(name, args) ==
  /\ name \notin toolHandlers
  /\ IF name \in ObjectPrototype
     THEN Answer(name, args, [tool |-> name, body |-> [value |-> "[object Undefined]"]])
     ELSE Answer(name, args, Thrown(name, Err("Unknown tool", name)))

GetArgsCalls ==
  {GetArgs(v, Undefined, Undefined, Undefined, Undefined, Undefined, Undefined) :
     v \in InputsWide}

SearchArgsCalls ==
  {SearchArgs(v, QNever, Undefined) : v \in InputsWide}
    \cup {SearchArgs(In("id", Id1), <<>>, Undefined)}

\* tool calls with well-formed and malformed arguments, and with unregistered names
NextCalls ==
  \/ \E videoIdOrUrl \in InputsWide : FetchCall(1, videoIdOrUrl)
  \/ Innertube(1, PageResponsesNarrow, PlayerResponsesNarrow, CaptionResponsesNarrow)
  \/ SaveDone(1)
  \/ \E args \in GetArgsCalls : GetTranscript(args)
  \/ \E args \in SearchArgsCalls : SearchTranscript(args)
  \/ \E args \in SearchArgsTest : CallSearchTranscript(args)
  \/ \E args \in ListArgs : ListTranscripts(args)
  \/ \E args \in FindArgs : FindTranscripts(args)
  \/ \E name \in ToolNames : UnregisteredTool(name, EmptyObject)

SpecCalls == Init /\ [][NextCalls]_vars

(***************************************************************************)
(* fetch_transcript of one video with a single manual English track and a  *)
(* three-entry caption document of either grammar, with either version of  *)
(* the pipeline, followed by searches for at most one result.              *)
(***************************************************************************)
CaptionResponsesThree ==
  {[status |-> 200, body |-> Some(DocP)], [status |-> 200, body |-> Some(DocText)],
   [status |-> 404, body |-> Undefined]}

SearchArgsOne == {SearchArgs(In("id", Id1), q, Some(1)) : q \in {TxtNever, QUp, QNone}}

NextEndToEnd ==
  \/ FetchCall(1, In("id", Id1))
  \/ Innertube(1, PageResponsesNarrow, PlayerResponsesNarrow, CaptionResponsesThree)
  \/ Youtubei(1, BasicInfos({<<Track("en", "manual", UrlSrv3)>>}), CaptionResponsesThree)
  \/ SaveDone(1)
  \/ \E args \in SearchArgsOne : SearchTranscript(args)

SpecEndToEnd == Init /\ [][NextEndToEnd]_vars

(***************************************************************************)
(* One get_transcript request against a collection the pipeline can have   *)
(* produced.                                                               *)
(***************************************************************************)
Rick == <<"R", "i", "c", "k">>

\* the document handleFetchTranscript saves for the given segments
RecordOf(videoId, title, segments) == Payload(videoId, TranscriptData(videoId, title, segments))

StoredRecords ==
  {RecordOf(Id1, Some(Rick), parseTranscriptXml(d)) :
     d \in {DocText, DocUnsorted, DocMedium, DocLong, DocNoDur}}
    \cup {RecordOf(Id1, Undefined, parseTimedTextXml(DocP))}

Stores ==
  {<<>>} \cup {<<r>> : r \in StoredRecords}
    \cup {<<RecordOf(Id2, Some(Rick), parseTranscriptXml(DocText)),
            RecordOf(Id1, Some(Rick), parseTranscriptXml(DocLong))>>}

InitGet ==
  /\ cfg \in Configs
  /\ store \in Stores
  /\ InitProcs
  /\ req \in {[tool |-> "get_transcript", args |-> args] : args \in GetArgsWide}
  /\ fin = <<>>
  /\ fout = <<>>

\* the pending request is served
NextGet == resp = NoResult /\ GetTranscript(req.args)

SpecGet == InitGet /\ [][NextGet]_vars

(***************************************************************************)
(* One search_transcript request against a collection the pipeline can     *)
(* have produced.                                                          *)
(***************************************************************************)
\* the windows of the long record: more than the largest result list
ManyWindows == 22

\* a record whose segments are 30 s apart, each a search window of its own
LongRecord ==
  RecordOf(Id1, Some(Rick),
           [i \in 1..ManyWindows |-> [text |-> TxtNever, start |-> (i - 1) * 30000,
                                      end |-> (i - 1) * 30000 + 2000, duration |-> 2000]])

InitSearch ==
  /\ cfg \in Configs
  /\ store \in Stores \cup {<<LongRecord>>}
  /\ InitProcs
  /\ req \in {[tool |-> "search_transcript", args |-> args] : args \in SearchArgsWide}
  /\ fin = <<>>
  /\ fout = <<>>

\* the pending request is served
NextSearch == resp = NoResult /\ SearchTranscript(req.args)

SpecSearch == InitSearch /\ [][NextSearch]_vars

(***************************************************************************)
(* createSegments on bounded inputs.                                       *)
(***************************************************************************)
SegEntry(text, start, duration) ==
  [text |-> text, start |-> start, end |-> start + duration, duration |-> duration]

SegEntries ==
  {SegEntry(t, s, 2000) : t \in {TxtNever, TxtGive}, s \in {0, 10000, 40000}}
    \cup {SegEntry(TxtNeverLet, 0, 12000)}

SegWindows == {1, 10000, 30000}

InitPure ==
  /\ cfg = DefaultConfig
  /\ store = <<>>
  /\ InitProcs
  /\ req = NoRequest
  /\ fout = <<>>

InitSeg ==
  /\ InitPure
  /\ fin \in {[timecodes |-> t, segmentDurationMs |-> w] :
                t \in SeqsUpTo(SegEntries, MaxEntries), w \in SegWindows}

RunSegmenter ==
  /\ fout = <<>>
  /\ fout' = <<[groups |-> SegmentGroups(fin.timecodes, fin.segmentDurationMs),
                segments |-> createSegments(fin.timecodes, fin.segmentDurationMs)]>>
  /\ UNCHANGED <<cfg, store, pc, inv, upstream, ext, req, resp, fin, ServerVars, OAuthVars>>

SpecSeg == InitSeg /\ [][RunSegmenter]_vars

(***************************************************************************)
(* The ranker on bounded inputs: one window per entry.                     *)
(***************************************************************************)
WindowTexts == {TxtNever, TxtGive, TxtNeverLet, TxtA}

\* entries 30 s apart, so that createSegments puts each in a window of its own
Spaced(texts) == [i \in 1..Len(texts) |-> SegEntry(texts[i], (i - 1) * 30000, 2000)]

InitRank ==
  /\ InitPure
  /\ fin \in {[timecodes |-> Spaced(t), query |-> q, maxResults |-> m] :
                t \in SeqsUpTo(WindowTexts, MaxWindows), q \in Queries \ {<<>>}, m \in {1, 5}}

RunRanker ==
  /\ fout = <<>>
  /\ LET segments == createSegments(fin.timecodes, 30000)
         scoredSegments == ScoreAll(segments, tokenize(fin.query))
     IN fout' = <<[scored |-> scoredSegments, results |-> Rank(scoredSegments, fin.maxResults)]>>
  /\ UNCHANGED <<cfg, store, pc, inv, upstream, ext, req, resp, fin, ServerVars, OAuthVars>>

SpecRank == InitRank /\ [][RunRanker]_vars

\* the token positions of a window and the query terms that are tried
MaxTokens == 3

MaxTerms == 2

(***************************************************************************)
(* The ranker on two transcripts that differ in one token of one window:   *)
(* the token at one position is replaced by a query term, so the window    *)
(* keeps its token count.                                                  *)
(***************************************************************************)
\* the window texts with token k of window w replaced by the term
WithTerm(texts, w, k, term) ==
  [texts EXCEPT ![w] = Join([tokenize(texts[w]) EXCEPT ![k] = term], Space)]

InitMono ==
  /\ InitPure
  /\ fin \in {f \in [texts : SeqsUpTo(WindowTexts, MaxWindows) \ {<<>>}, query : Queries,
                      window : 1..MaxWindows, position : 1..MaxTokens, term : 1..MaxTerms] :
                /\ f.window <= Len(f.texts)
                /\ f.position <= Len(tokenize(f.texts[f.window]))
                /\ f.term <= Len(tokenize(f.query))}

\* score the chosen window before and after the replacement
RunMono ==
  /\ fout = <<>>
  /\ LET queryTokens == tokenize(fin.query)
         term == queryTokens[fin.term]
         before == createSegments(Spaced(fin.texts), 30000)
         after == createSegments(Spaced(WithTerm(fin.texts, fin.window, fin.position, term)), 30000)
     IN fout' = <<[before |-> ScoreAll(before, queryTokens)[fin.window],
                   after |-> ScoreAll(after, queryTokens)[fin.window],
                   queryTokens |-> queryTokens,
                   term |-> term,
                   replaced |-> tokenize(fin.texts[fin.window])[fin.position]]>>
  /\ UNCHANGED <<cfg, store, pc, inv, upstream, ext, req, resp, fin, ServerVars, OAuthVars>>

SpecMono == InitMono /\ [][RunMono]_vars

(***************************************************************************)
(* Authentication in front of the MCP endpoint.  fin is one request with   *)
(* the oauth-token and oauth-client collections it meets, fout the koa     *)
(* context after the handler in front of the controller has run.           *)
(***************************************************************************)
McpPath == "/api/yt-transcript-strapi-plugin/mcp"

\* request paths as pieces
Paths == {<<McpPath>>, <<"/proxy", McpPath>>, <<"/api/yt-transcript-strapi-plugin/yt-transcript/abc">>}

\* Authorization headers as pieces: scheme with its space, then the credentials
AuthHeaders ==
  {Undefined, <<"Basic ", "tokA">>, <<"Bearer ">>, <<"Bearer ", "tokA">>, <<"Bearer ", "tokB">>,
   <<"Bearer ", "api1">>}

\* the clock of the check, and expiry dates before and after it
Now == 5

OAuthToken(accessToken, revoked, expiresAt, clientId) ==
  [accessToken |-> accessToken, revoked |-> revoked, expiresAt |-> expiresAt,
   clientId |-> clientId]

OAuthTokens ==
  {OAuthToken("tokA", FALSE, 10, "c1"), OAuthToken("tokA", TRUE, 10, "c1"),
   OAuthToken("tokA", FALSE, 0, "c1"), OAuthToken("tokB", FALSE, 10, "c2")}

OAuthClient(clientId, strapiApiToken, active) ==
  [clientId |-> clientId, strapiApiToken |-> strapiApiToken, active |-> active]

OAuthClients ==
  {<<>>, <<OAuthClient("c1", "st1", TRUE)>>, <<OAuthClient("c1", "", TRUE)>>,
   <<OAuthClient("c1", "st1", FALSE)>>}

MaxOAuthTokens == 1

\* the three handlers that can stand in front of the controller
AuthHandlers == {"middleware", "policy", "fallback"}

\* authHeader?.startsWith('Bearer ')
StartsWithBearer(authHeader) == Len(authHeader) > 0 /\ authHeader[1] = "Bearer "

\* extractBearerToken: null (Undefined) or authHeader.slice(7)
extractBearerToken(authHeader) ==
  IF ~StartsWithBearer(authHeader) THEN Undefined
  ELSE IF Len(authHeader) > 1 THEN Some(authHeader[2]) ELSE Some("")

\* documents(...).findFirst({filters}): the first document passing the filter
FindFirst(docs, Passes(_)) ==
  LET found == SelectSeq(docs, Passes)
  IN IF Len(found) = 0 THEN Undefined ELSE Some(found[1])

\* validateOAuthToken: { valid, strapiApiToken }
validateOAuthToken(token, db) ==
  IF db.fails THEN [valid |-> FALSE, strapiApiToken |-> Undefined]
  ELSE LET tokenRecord ==
             FindFirst(db.tokens, LAMBDA r : r.accessToken = token /\ r.revoked = FALSE)
       IN IF ~IsDefined(tokenRecord) THEN [valid |-> FALSE, strapiApiToken |-> Undefined]
          ELSE IF tokenRecord[1].expiresAt < Now
          THEN [valid |-> FALSE, strapiApiToken |-> Undefined]
          ELSE LET client ==
                     FindFirst(db.clients, LAMBDA c : c.clientId = tokenRecord[1].clientId)
               IN IF ~IsDefined(client) THEN [valid |-> FALSE, strapiApiToken |-> Undefined]
                  ELSE [valid |-> TRUE, strapiApiToken |-> Some(client[1].strapiApiToken)]

\* services/oauth validateAccessToken: { valid, clientId, strapiApiToken }
validateAccessToken(accessToken, db) ==
  LET invalid == [valid |-> FALSE, clientId |-> Undefined, strapiApiToken |-> Undefined]
  IN IF accessToken = "" THEN invalid
     ELSE IF db.fails THEN invalid
     ELSE LET token ==
                FindFirst(db.tokens, LAMBDA r : r.accessToken = accessToken /\ r.revoked = FALSE)
          IN IF ~IsDefined(token) THEN invalid
             ELSE IF token[1].expiresAt < Now THEN invalid
             ELSE LET client ==
                        FindFirst(db.clients,
                                  LAMBDA c : c.clientId = token[1].clientId /\ c.active = TRUE)
                  IN IF ~IsDefined(client) THEN invalid
                     ELSE [valid |-> TRUE, clientId |-> Some(token[1].clientId),
                           strapiApiToken |-> Some(client[1].strapiApiToken)]

\* the koa context before any handler has touched it
FreshCtx ==
  [status |-> 404, wwwAuthenticate |-> FALSE, strapiToken |-> Undefined, authMethod |-> "none",
   next |-> FALSE]

\* return next()
CallNext(ctx) == [ctx EXCEPT !.next = TRUE]

\* ctx.state.strapiToken / authMethod set, then next()
Authenticated(strapiToken, authMethod) ==
  CallNext([FreshCtx EXCEPT !.strapiToken = Some(strapiToken), !.authMethod = authMethod])

\* 401 with the WWW-Authenticate header for OAuth discovery
Unauthorized == [FreshCtx EXCEPT !.status = 401, !.wwwAuthenticate = TRUE]

\* what both OAuth handlers do once they have the header
OAuthOrApiToken(request) ==
  LET token == extractBearerToken(request.authorization)
  IN IF ~IsDefined(token) \/ token[1] = "" THEN Unauthorized
     ELSE LET oauthResult == validateOAuthToken(token[1], request.db)
          IN IF oauthResult.valid /\ IsDefined(oauthResult.strapiApiToken)
                  /\ oauthResult.strapiApiToken[1] # ""
             THEN Authenticated(oauthResult.strapiApiToken[1], "oauth")
             ELSE Authenticated(token[1], "api-token")

\* middlewares/oauth-auth
oauthAuthMiddleware(request) ==
  IF \A i \in 1..Len(request.path) : request.path[i] # McpPath THEN CallNext(FreshCtx)
  ELSE OAuthOrApiToken(request)

\* policies/oauth-auth: the route's policy, UnauthorizedError answered as 401
oauthAuthPolicy(request) == OAuthOrApiToken(request)

\* bootstrap: the fallback when the OAuth plugin is not installed
createFallbackAuthMiddleware(request) ==
  IF request.path[1] # McpPath THEN CallNext(FreshCtx)
  ELSE IF ~StartsWithBearer(request.authorization)
  THEN [FreshCtx EXCEPT !.status = 401]
  ELSE Authenticated(extractBearerToken(request.authorization)[1], "api-token")

InitAuth ==
  /\ InitPure
  /\ fin \in {[handler |-> h, path |-> path, authorization |-> a,
                db |-> [tokens |-> tokens, clients |-> clients, fails |-> fails]] :
                h \in AuthHandlers, path \in Paths, a \in AuthHeaders,
                tokens \in SeqsUpTo(OAuthTokens, MaxOAuthTokens), clients \in OAuthClients,
                fails \in BOOLEAN}

\* a request passes the handler that is installed in front of the controller
McpRequest ==
  /\ fout = <<>>
  /\ fout' = <<CASE fin.handler = "middleware" -> oauthAuthMiddleware(fin)
                 [] fin.handler = "policy" -> oauthAuthPolicy(fin)
                 [] OTHER -> createFallbackAuthMiddleware(fin)>>
  /\ UNCHANGED <<cfg, store, pc, inv, upstream, ext, req, resp, fin, ServerVars, OAuthVars>>

SpecAuth == InitAuth /\ [][McpRequest]_vars

(***************************************************************************)
(* Properties.                                                             *)
(***************************************************************************)
C1_ZeroInBothGrammars(xml) == Len(parsePTagFormat(xml)) = 0 /\ Len(parseTextTagFormat(xml)) = 0

\* C1: whenever fetchTranscript returns a record, the record has at least one segment;
\* whenever it fails it returns no record; and a caption document in which both
\* grammars match zero segments makes it fail.
C1_RecordOrError ==
  /\ ext.kind = "record" =>
       /\ IsDefined(ext.data)
       /\ Len(ext.data[1].transcriptWithTimeCodes) >= 1
  /\ ext.kind = "error" => ~IsDefined(ext.data)
  /\ (ext.kind # "none" /\ IsDefined(ext.xml) /\ C1_ZeroInBothGrammars(ext.xml[1])) =>
       ext.kind = "error"
  /\ \A p \in Procs :
       pc[p] = "save" => Len(inv[p].payload[1].transcriptWithTimeCodes) >= 1

\* fetchTranscript has returned a record of three segments
C1_Witness ==
  /\ ext.kind = "record"
  /\ Len(ext.data[1].transcriptWithTimeCodes) = 3

C2_Found ==
  /\ req.tool = "get_transcript"
  /\ resp.tool = "get_transcript"
  /\ "metadata" \in DOMAIN resp.body

\* the outcome the stated precedence asks for
C2_Expected ==
  LET fullText == findTranscript(store, req.args.videoId.id)[1].fullTranscript
  IN IF IsDefined(req.args.startTime) \/ IsDefined(req.args.endTime) THEN "timeRange"
     ELSE IF IsDefined(req.args.chunkIndex) THEN "chunk"
     ELSE IF req.args.includeFullTranscript = Some(TRUE)
               \/ Len(fullText) <= cfg.maxFullTranscriptLength
     THEN "full"
     ELSE "preview"

C3_Lossless ==
  (fout # <<>> /\ "segmentDurationMs" \in DOMAIN fin /\ Len(fin.timecodes) > 0) =>
    LET groups == fout[1].groups
        segments == fout[1].segments
    IN /\ Len(groups) >= 1
       /\ \A i \in 1..Len(groups) : Len(groups[i].entries) >= 1
       /\ Flatten([i \in 1..Len(groups) |-> groups[i].entries]) = fin.timecodes
       /\ Len(segments) = Len(groups)
       /\ \A i \in 1..Len(groups) :
            segments[i].text = Join(SegmentTexts(groups[i].entries), Space)
       /\ Join([i \in 1..Len(segments) |-> segments[i].text], Space)
            = Join(SegmentTexts(fin.timecodes), Space)

\* three entries have been split into more than one window
C3_Witness ==
  /\ fout # <<>>
  /\ "segmentDurationMs" \in DOMAIN fin
  /\ Len(fin.timecodes) = 3
  /\ Len(fout[1].segments) = 2

C4_HasQueryToken(segment, tokens) ==
  \E i \in 1..Len(tokens) : Contains(tokenize(segment.text), tokens[i])

\* C4: the ranker returns only windows whose score is > 0, by score descending, windows of
\* equal score in their original order; a window with score <= 0, and so every window
\* that contains no query token, is not in the result.
C4_Ranked ==
  (fout # <<>> /\ "query" \in DOMAIN fin) =>
    LET scored == fout[1].scored
        results == fout[1].results
        tokens == tokenize(fin.query)
        positive == {j \in 1..Len(scored) : scored[j].score > 0}
    IN /\ \A i \in 1..Len(results) :
            /\ results[i].score > 0
            /\ \E j \in positive : scored[j] = results[i]
       /\ \A i \in 1..(Len(results) - 1) :
            /\ results[i].score >= results[i + 1].score
            /\ results[i].score = results[i + 1].score =>
                 results[i].startTime < results[i + 1].startTime
       /\ \A j \in 1..Len(scored) :
            ~C4_HasQueryToken(scored[j], tokens) =>
              /\ scored[j].score <= 0
              /\ \A i \in 1..Len(results) : results[i] # scored[j]
       /\ Len(results) = Min(fin.maxResults, Cardinality(positive))
       /\ \A j \in positive :
            (\A i \in 1..Len(results) : results[i] # scored[j]) =>
              scored[j].score <= results[Len(results)].score

\* two windows of equal positive score are returned in window order, a window without a
\* query token is left out
C4_Witness ==
  /\ fout # <<>>
  /\ "query" \in DOMAIN fin
  /\ Len(fout[1].scored) = 3
  /\ Len(fout[1].results) = 2
  /\ fout[1].results[1].score = fout[1].results[2].score

C5_Stored(videoId) == \E i \in 1..Len(store) : store[i].videoId = videoId

\* the step in which findTranscript answers an invocation whose record is stored
C5_CachedStep(p) ==
  (pc[p] = "find" /\ pc'[p] # "find" /\ C5_Stored(inv[p].videoId)) =>
    /\ pc'[p] = "idle"
    /\ resp'.tool = "fetch_transcript"
    /\ "cached" \in DOMAIN resp'.body
    /\ resp'.body.cached
    /\ resp'.body.videoId = inv[p].videoId
    /\ \E i \in 1..Len(store) :
         store[i].videoId = inv[p].videoId /\ store[i].title = resp'.body.title
    /\ upstream[p] = <<>>
    /\ upstream' = upstream
    /\ store' = store

\* every stored record stays as it is
C5_Kept ==
  /\ Len(store') >= Len(store)
  /\ \A i \in 1..Len(store) : store'[i] = store[i]

\* C5: when a record for the resolved videoId is stored, fetch_transcript returns it flagged
\* as cached, issues no upstream request and creates nothing; and no step of any of the
\* five tools modifies or deletes a stored record.
C5_CachedAndKept == [][(\A p \in Procs : C5_CachedStep(p)) /\ C5_Kept]_vars

\* fetch_transcript has answered from the collection
C5_Witness ==
  /\ resp.tool = "fetch_transcript"
  /\ "cached" \in DOMAIN resp.body
  /\ resp.body.cached
  /\ Len(store) >= 1

\* C6: the result of fetch_transcript, cached or fresh, has the metadata fields and a
\* preview only: the preview is the text when it has at most previewLength characters,
\* otherwise its first previewLength characters followed by '...'; the result has no
\* field for the full text or the segment list.
C6_PreviewOnly ==
  (resp.tool = "fetch_transcript" /\ "cached" \in DOMAIN resp.body) =>
    LET fullText == findTranscript(store, resp.body.videoId)[1].fullTranscript
        n == cfg.previewLength
    IN /\ DOMAIN resp.body
            = {"message", "cached", "videoId", "title", "metadata", "preview", "usage"}
       /\ DOMAIN resp.body.metadata
            = {"wordCount", "characterCount", "duration", "durationSeconds"}
       /\ Len(fullText) <= n => resp.body.preview = fullText
       /\ Len(fullText) > n =>
            /\ resp.body.preview = SubSeq(fullText, 1, n) \o <<".", ".", ".">>
            /\ resp.body.preview # fullText

\* a cached result whose preview was truncated
C6_Witness ==
  /\ resp.tool = "fetch_transcript"
  /\ "cached" \in DOMAIN resp.body
  /\ resp.body.cached
  /\ Len(resp.body.preview) = cfg.previewLength + 3

C8_EnglishCode(t) == t.languageCode = "en"

C8_EnglishLanguage(t) == t.languageCode \in {"en", "en-US"}

\* human-authored English, else any English, else the first track
C8_Choice(tracks, English(_)) ==
  LET manual == {i \in 1..Len(tracks) : English(tracks[i]) /\ tracks[i].kind # "asr"}
      english == {i \in 1..Len(tracks) : English(tracks[i])}
      First(S) == CHOOSE i \in S : \A j \in S : i <= j
  IN IF manual # {} THEN tracks[First(manual)]
     ELSE IF english # {} THEN tracks[First(english)]
     ELSE tracks[1]

C8_Chosen(tracks, track) ==
  IsDefined(track) =>
    track[1] \in {C8_Choice(tracks, C8_EnglishCode), C8_Choice(tracks, C8_EnglishLanguage)}

\* C8: the chosen caption track is the first human-authored English track if there is one,
\* else the first English track if there is one, else the first track; English read
\* either as the language code 'en' or as any code of the English language.
C8_Priority ==
  /\ C8_Chosen(ext.tracks, ext.track)
  /\ \A p \in Procs : C8_Chosen(inv[p].tracks, inv[p].track)

C9_Marked(t) == \E i \in 1..Len(t.baseUrl) : t.baseUrl[i] = "&exp=xpe"

\* C9: in the direct Innertube pipeline a chosen track whose URL has the proof-of-origin
\* marker makes the extraction fail with the PoToken error, whatever other tracks exist,
\* and no caption document is requested for it.
C9_MarkedRejected ==
  /\ \A p \in Procs :
       pc[p] = "caption" =>
         /\ ~C9_Marked(inv[p].track[1])
         /\ inv[p].captionUrl = ReplaceFirst(inv[p].track[1].baseUrl, "&fmt=srv3")
  /\ (ext.kind # "none" /\ IsDefined(ext.track) /\ C9_Marked(ext.track[1])
        /\ ext.requests[1] = "watch") =>
       /\ ext.kind = "error"
       /\ ext.error = PoTokenRequired
       /\ \A i \in 1..Len(ext.requests) : ext.requests[i] # "caption"

\* the extraction failed on a marked track although an unmarked track came before it
C9_Witness ==
  /\ ext.error = PoTokenRequired
  /\ Len(ext.tracks) >= 2
  /\ ~C9_Marked(ext.tracks[1])

\* C10: in the direct Innertube pipeline an upstream 429 at any step (watch page, player
\* endpoint, caption document) makes the extraction fail with the rate-limited error.
C10_RateLimited ==
  (ext.kind # "none" /\ ext.status = 429 /\ ext.requests[1] = "watch") =>
    /\ ext.kind = "error"
    /\ ext.error = RateLimited

C11_Playable(pl) == IsDefined(pl) /\ pl[1].status = "OK"

\* C11: when the player endpoint answers with a playability status other than 'OK', the
\* extraction fails with the not-playable error carrying the reason the response supplies,
\* no caption track has been selected and no caption document requested; a caption
\* document is only ever requested for a playable video.
C11_NotPlayable ==
  /\ \A p \in Procs : pc[p] = "caption" => C11_Playable(inv[p].playability)
  /\ (ext.kind # "none" /\ Len(ext.requests) > 0
        /\ ext.requests[Len(ext.requests)] = "player" /\ IsOk(ext.status)
        /\ ~C11_Playable(ext.playability)) =>
       /\ ext.kind = "error"
       /\ ext.error.message = "Video not playable"
       /\ (IsDefined(ext.playability) /\ IsDefined(ext.playability[1].reason)) =>
            ext.error.detail = ext.playability[1].reason[1]
       /\ ~IsDefined(ext.track)
       /\ ext.tracks = <<>>
       /\ \A i \in 1..Len(ext.requests) : ext.requests[i] # "caption"

\* a video that needs a login was rejected with the upstream reason
C11_Witness ==
  /\ ext.kind = "error"
  /\ IsDefined(ext.playability)
  /\ ext.playability[1].status = "LOGIN_REQUIRED"
  /\ ext.error = NotPlayable("Sign in to confirm your age")

\* the caller input of a fetch_transcript, get_transcript or search_transcript request
C12_Input(r) == IF r.tool = "fetch_transcript" THEN r.args ELSE r.args.videoId

\* a call with an input that carries no well-formed identifier returns an error result
\* and changes neither the collection nor the upstream requests nor any invocation
C12_Rejected ==
  [][(req'.tool \in {"fetch_transcript", "get_transcript", "search_transcript"}
        /\ <<req, resp>>' # <<req, resp>>
        /\ ~IsValidId(C12_Input(req').id)) =>
       /\ resp'.tool = req'.tool
       /\ "error" \in DOMAIN resp'.body
       /\ resp'.body.error
       /\ resp'.body.message
            \in {InvalidIdMessage(C12_Input(req')), ValidationMessage(req'.tool)}
       /\ resp'.body.message = ValidationMessage(req'.tool) => C12_Input(req').id = <<>>
       /\ store' = store
       /\ upstream' = upstream
       /\ pc' = pc
       /\ inv' = inv]_vars

\* every running invocation, and so every upstream request, and every stored record is
\* for a well-formed identifier
C12_WellFormed ==
  /\ \A p \in Procs : pc[p] # "idle" => IsValidId(inv[p].videoId)
  /\ \A p \in Procs : upstream[p] # <<>> => pc[p] # "idle"
  /\ \A i \in 1..Len(store) : IsValidId(store[i].videoId)

C13_Served == req.tool = "search_transcript" /\ resp # NoResult

\* the record the served search looked up, when the identifier resolves
C13_Found ==
  IF IsDefined(extractYouTubeID(req.args.videoId))
  THEN findTranscript(store, extractYouTubeID(req.args.videoId)[1])
  ELSE Undefined

\* C13: a search whose query tokenizes to zero terms returns an error result and neither a
\* result list nor any score or match count, so no window was scored; on a stored
\* transcript with segments the error is the empty-query error.
C13_EmptyQueryIsError ==
  (C13_Served /\ Len(tokenize(req.args.query)) = 0) =>
     /\ "error" \in DOMAIN resp.body
     /\ resp.body.error
     /\ DOMAIN resp.body \cap {"results", "matchingResults", "totalSegments"} = {}
     /\ (IsDefined(C13_Found) /\ Len(C13_Found[1].transcriptWithTimeCodes) > 0) =>
          /\ resp.body.message = Err("Query is empty or contains only stop words.", "")
          /\ resp.body.query = req.args.query

\* a query of punctuation and a one-character word was refused on a stored transcript
C13_Witness ==
  /\ C13_Served
  /\ req.args.query = QPunct
  /\ IsDefined(C13_Found)
  /\ Len(C13_Found[1].transcriptWithTimeCodes) > 0
  /\ resp.body.message = Err("Query is empty or contains only stop words.", "")

\* C14: the core does not deduplicate concurrent fetches of one identifier: an invocation
\* that finds no record starts the upstream round trip whatever the other invocations are
\* doing, and every invocation that reaches the save creates a record, also when a record
\* of the same video has been stored in the meantime; only the storage layer could refuse it.
C14_NotDeduplicated ==
  [][\A p \in Procs :
       /\ (pc[p] = "find" /\ pc'[p] # "find"
             /\ ~IsDefined(findTranscript(store, inv[p].videoId))
             /\ IsValidId(inv[p].videoId)) =>
            /\ pc'[p] = "page"
            /\ upstream'[p] = <<"watch">>
       /\ (pc[p] = "save" /\ pc'[p] # "save") =>
            /\ Len(store') = Len(store) + 1
            /\ store'[Len(store')] = inv[p].payload[1]
            /\ store'[Len(store')].videoId = inv[p].videoId]_vars

\* one invocation has stored the record of a video while another one, which found no record
\* and made the full round trip for the same video, is about to create its own
C14_Witness ==
  /\ Len(store) = 1
  /\ pc[2] = "save"
  /\ store[1].videoId = inv[2].videoId
  /\ upstream[2] = <<"watch", "player", "caption">>

\* non-empty text, an integer start of at least 0, end not before start, duration = end - start
C15_Segment(e) ==
  /\ Len(e.text) > 0
  /\ e.start \in Nat
  /\ e.end \in Nat
  /\ e.end >= e.start
  /\ e.duration = e.end - e.start

\* C15: every segment the caption parser produces, under either grammar, has non-empty
\* text, an integer start of at least 0, an end not before the start and a duration equal
\* to end - start: stated of the segments of every extraction result and stored record.
C15_WellFormed ==
  /\ ext.kind = "record" =>
       \A k \in 1..Len(ext.data[1].transcriptWithTimeCodes) :
         C15_Segment(ext.data[1].transcriptWithTimeCodes[k])
  /\ \A i \in 1..Len(store) : \A k \in 1..Len(store[i].transcriptWithTimeCodes) :
       C15_Segment(store[i].transcriptWithTimeCodes[k])

\* the entries are in non-decreasing start order
C16_Sorted(entries) ==
  \A i, j \in 1..Len(entries) : i < j => entries[i].start <= entries[j].start

\* C16: in every record the pipeline produces the segments are in non-decreasing start
\* order, whatever the order of the entries in the caption document: stated of every
\* extraction result and of every stored record.
C16_Ordered ==
  /\ ext.kind = "record" => C16_Sorted(ext.data[1].transcriptWithTimeCodes)
  /\ \A i \in 1..Len(store) : C16_Sorted(store[i].transcriptWithTimeCodes)

\* a get_transcript request has been served from the stored record it names
C17_Served ==
  /\ req.tool = "get_transcript"
  /\ resp # NoResult
  /\ IsDefined(extractYouTubeID(req.args.videoId))
  /\ IsDefined(findTranscript(store, extractYouTubeID(req.args.videoId)[1]))

C17_Record == findTranscript(store, extractYouTubeID(req.args.videoId)[1])[1]

\* the requested interval in milliseconds: a missing start is 0, a missing end is the
\* transcript duration (the end of the last stored segment)
C17_From == IF IsDefined(req.args.startTime) THEN req.args.startTime[1] * 1000 ELSE 0

C17_To ==
  IF IsDefined(req.args.endTime) THEN req.args.endTime[1] * 1000
  ELSE getVideoDurationMs(C17_Record.transcriptWithTimeCodes)

C17_Inside(e) == C17_From <= e.start /\ e.start < C17_To

C17_Selected == SelectSeq(C17_Record.transcriptWithTimeCodes, C17_Inside)

C18_Served ==
  /\ C17_Served
  /\ IsDefined(req.args.chunkIndex)
  /\ ~IsDefined(req.args.startTime)
  /\ ~IsDefined(req.args.endTime)

C18_Timecodes == C17_Record.transcriptWithTimeCodes

\* the requested window size in milliseconds, or the configured one
C18_SizeMs ==
  1000 * (IF IsDefined(req.args.chunkSize) THEN req.args.chunkSize[1] ELSE cfg.chunkSizeSeconds)

C18_Index == req.args.chunkIndex[1]

\* the windows of createSegments on the stored segments
C18_Windows == SegmentGroups(C18_Timecodes, C18_SizeMs)

C18_OutOfRange == "error" \in DOMAIN resp.body /\ "chunk" \notin DOMAIN resp.body

C18_Duration == getVideoDurationMs(C18_Timecodes)

\* the number of windows of the time grid: the least n with n * size >= duration
C18_Count ==
  CHOOSE n \in 0..(C18_Duration \div C18_SizeMs + 1) :
    /\ n * C18_SizeMs >= C18_Duration
    /\ \A m \in 0..(n - 1) : m * C18_SizeMs < C18_Duration

C18_InWindow(e) ==
  /\ C18_Index * C18_SizeMs <= e.start
  /\ e.start < (C18_Index + 1) * C18_SizeMs
  /\ e.start < C18_Duration

C18_Selected == SelectSeq(C18_Timecodes, C18_InWindow)

C19_FullText ==
  <<"n", "e", "v", "e", "r", " ", "g", "o", "n", "n", "a", " ",
    "G", "i", "v", "e", " ", "y", "o", "u", " ", "u", "p", ".", " ",
    "n", "e", "v", "e", "r", " ", "l", "e", "t", " ", "u">>

\* the record of the three-entry grammar-A document
C19_Record(r) ==
  /\ Len(r.transcriptWithTimeCodes) = 3
  /\ r.fullTranscript = C19_FullText

\* C19: end to end, when the signing key is present, the video playable, the only caption
\* track a manual English one and the caption document the grammar-A document with three
\* entries, the extraction yields and fetch stores a record with exactly 3 segments whose
\* full text is the three texts joined by single spaces, and a following search for the
\* phrase "never gonna" with maxResults = 1 returns exactly one result, the window
\* containing the phrase, with a score above 0.
C19_EndToEnd ==
  /\ (ext.kind # "none" /\ IsOk(ext.status) /\ ext.xml = Some(DocP)) =>
       /\ ext.kind = "record"
       /\ C19_Record(ext.data[1])
  /\ \A p \in Procs : (pc[p] = "save" /\ ext.xml = Some(DocP)) => C19_Record(inv[p].payload[1])
  /\ (req.tool = "search_transcript" /\ req.args.query = TxtNever
        /\ req.args.maxResults = Some(1) /\ Len(store) = 1 /\ C19_Record(store[1])) =>
       /\ "results" \in DOMAIN resp.body
       /\ Len(resp.body.results) = 1
       /\ resp.body.matchingResults = 1
       /\ ContainsI(resp.body.results[1].text, TxtNever)
       /\ resp.body.results[1].startTime = 0
       /\ resp.body.results[1].score > 0

\* C19 for the youtubei.js version of the pipeline alone
C19_Youtubei ==
  (\A p \in Procs : \A i \in 1..Len(upstream[p]) : upstream[p][i] \notin {"watch", "player", "caption"})
    /\ (ext.kind # "none" => \A i \in 1..Len(ext.requests) : ext.requests[i] # "caption")
    => C19_EndToEnd

\* the window has the same number of tokens before and after
C20_SameLength == Len(tokenize(fout[1].before.text)) = Len(tokenize(fout[1].after.text))

\* the frequency of the term in the window has gone up
C20_TermRaised ==
  TermFreq(tokenize(fout[1].after.text), fout[1].term)
    > TermFreq(tokenize(fout[1].before.text), fout[1].term)

\* the score of a window never goes down when the frequency of a query term in it goes up
\* and its token count stays the same, whichever token made room for the term
C20_NeverDecreases ==
  (fout # <<>> /\ C20_TermRaised /\ C20_SameLength) =>
     fout[1].after.score >= fout[1].before.score

\* every other query term is as frequent in the window as before
C20_OthersKept ==
  \A i \in 1..Len(fout[1].queryTokens) :
    fout[1].queryTokens[i] # fout[1].term =>
      TermFreq(tokenize(fout[1].after.text), fout[1].queryTokens[i])
        = TermFreq(tokenize(fout[1].before.text), fout[1].queryTokens[i])

\* C20: increasing the frequency of a query term in one window, while the window's token
\* count and the frequencies of the other query terms in it stay the same, never
\* decreases that window's score.
C20_Monotone ==
  (fout # <<>> /\ C20_TermRaised /\ C20_SameLength /\ C20_OthersKept) =>
     fout[1].after.score >= fout[1].before.score

\* a window that already held the term scores strictly higher with one more occurrence in
\* place of a token that is no query term
C20_Witness ==
  /\ fout # <<>>
  /\ C20_TermRaised
  /\ C20_SameLength
  /\ C20_OthersKept
  /\ TermFreq(tokenize(fout[1].before.text), fout[1].term) >= 1
  /\ fout[1].after.score > fout[1].before.score

\* every window ends at or after its start
C21_Forward(segments) ==
  \A i \in 1..Len(segments) : segments[i].endTime >= segments[i].startTime

\* C21: for every non-empty segment sequence and every window size above 0, each window
\* createSegments produces has an end time greater than or equal to its start time.
C21_EndNotBeforeStart ==
  (fout # <<>> /\ Len(fin.timecodes) > 0) => C21_Forward(fout[1].segments)

\* the same for the sequences that are in start order
C21_Ordered ==
  (fout # <<>> /\ Len(fin.timecodes) > 0 /\ C16_Sorted(fin.timecodes)) =>
     C21_Forward(fout[1].segments)

\* a search_transcript request has been answered with a result list
C22_Listed == req.tool = "search_transcript" /\ "results" \in DOMAIN resp.body

\* C22: search never returns more than 20 results, never more than the caller's
\* maxResults when that is between 1 and 20, and never more than 5 when maxResults is
\* omitted.
C22_AtMost ==
  C22_Listed =>
     /\ Len(resp.body.results) <= 20
     /\ resp.body.matchingResults = Len(resp.body.results)
     /\ (IsDefined(req.args.maxResults) /\ req.args.maxResults[1] \in 1..20) =>
          Len(resp.body.results) <= req.args.maxResults[1]
     /\ ~IsDefined(req.args.maxResults) => Len(resp.body.results) <= 5

\* a request for 25 results on a transcript of more than 20 matching windows got 20
C22_Witness ==
  /\ C22_Listed
  /\ req.args.maxResults = Some(25)
  /\ resp.body.totalSegments > 20
  /\ Len(resp.body.results) = 20

\* an omitted maxResults on the same transcript got 5
C22_WitnessDefault ==
  /\ C22_Listed
  /\ ~IsDefined(req.args.maxResults)
  /\ resp.body.totalSegments > 20
  /\ Len(resp.body.results) = 5

\* a record of the video the request names is stored
C23_Fetched ==
  /\ IsDefined(extractYouTubeID(req.args.videoId))
  /\ IsDefined(findTranscript(store, extractYouTubeID(req.args.videoId)[1]))

\* C23: the five tools of the integration test are advertised and dispatched, and once a
\* record of the video is stored, get_transcript with no options, with chunkIndex 0 and a
\* chunkSize, and with startTime and endTime, and search_transcript with a query of at
\* least one token, each return a result without an error flag.
C23_TestsPass ==
  /\ tools = {"fetch_transcript", "get_transcript", "search_transcript", "list_transcripts",
              "find_transcripts"}
  /\ tools \subseteq toolHandlers
  /\ (req.tool = "get_transcript" /\ req.args \in GetArgsTest /\ C23_Fetched) =>
       "error" \notin DOMAIN resp.body
  /\ (req.tool = "search_transcript" /\ Len(tokenize(req.args.query)) >= 1 /\ C23_Fetched) =>
       "error" \notin DOMAIN resp.body

\* the get_transcript part of C23 alone
C23_GetPasses ==
  (req.tool = "get_transcript" /\ req.args \in GetArgsTest /\ C23_Fetched) =>
     "error" \notin DOMAIN resp.body

\* the upstream requests of an extraction, in order, without and with the consent round
C24_Steps == {<<"watch", "player", "caption">>, <<"watch", "watch+cookie", "player", "caption">>}

C24_IsPrefix(s, full) == Len(s) <= Len(full) /\ s = SubSeq(full, 1, Len(s))

\* the requests are an initial part of the step sequence
C24_InOrder(s) == \E full \in C24_Steps : C24_IsPrefix(s, full)

C24_Innertube(s) == Len(s) > 0 /\ s[1] = "watch"

\* the requests issued so far are an initial part of the step sequence, and the invocation
\* waits for the answer to the last one
C24_Prefix ==
  /\ \A p \in Procs :
       C24_Innertube(upstream[p]) =>
         /\ C24_InOrder(upstream[p])
         /\ pc[p] = "page" => upstream[p] = <<"watch">>
         /\ pc[p] = "page2" => upstream[p] = <<"watch", "watch+cookie">>
         /\ pc[p] = "player" => upstream[p][Len(upstream[p])] = "player"
         /\ pc[p] = "caption" => upstream[p][Len(upstream[p])] = "caption"
         /\ pc[p] = "save" => upstream[p] \in C24_Steps
  /\ C24_Innertube(ext.requests) => C24_InOrder(ext.requests)

\* a step issues at most one request, and the step at which the extraction fails issues
\* none and ends the invocation
C24_NoRetry ==
  [][\A p \in Procs :
       /\ upstream'[p] \in {upstream[p], <<>>}
            \/ \E r \in {"watch", "watch+cookie", "player", "caption", "basicInfo", "timedtext"} :
                 upstream'[p] = Append(upstream[p], r)
       /\ (C24_Innertube(upstream[p]) /\ ext'.kind = "error" /\ pc'[p] # pc[p]) =>
            /\ ext'.requests = upstream[p]
            /\ pc'[p] = "idle"
            /\ upstream'[p] = <<>>]_vars

\* C24: within one extraction the upstream requests form a prefix of watch page, (watch
\* page again with the consent cookie), player endpoint, caption document, in that order;
\* the player call and the caption fetch are each issued at most once; and after a fatal
\* step no further upstream request is issued.
C24_Sequential == []C24_Prefix /\ C24_NoRetry

\* an extraction failed at the player endpoint after the consent round, with three requests
C24_Witness ==
  /\ ext.kind = "error"
  /\ ext.requests = <<"watch", "watch+cookie", "player">>
  /\ \A p \in Procs : upstream[p] = <<>>

\* the number of watch page fetches among the requests
C25_PageFetches(requests) ==
  Cardinality({i \in 1..Len(requests) : requests[i] \in {"watch", "watch+cookie"}})

\* the requests and the watch pages answered so far, of the running invocations and of the
\* extraction that failed last
C25_Runs ==
  {[requests |-> upstream[p], pages |-> inv[p].pages, running |-> TRUE] :
     p \in {q \in Procs : pc[q] \in {"page2", "player"}}}
    \cup (IF ext.kind = "error" /\ C24_Innertube(ext.requests) /\ Len(ext.pages) > 0
          THEN {[requests |-> ext.requests, pages |-> ext.pages, running |-> FALSE]} ELSE {})

\* the page was fetched again, once, with the cookie
C25_Repeated(run) ==
  /\ C25_PageFetches(run.requests) = 2
  /\ SubSeq(run.requests, 1, 2) = <<"watch", "watch+cookie">>

C25_Once(run) == C25_PageFetches(run.requests) = 1

\* the claim as stated: the page is fetched again exactly when the first answer holds the
\* consent form marker
C25_MarkerRepeats ==
  \A run \in C25_Runs :
    IF run.pages[1].marker THEN C25_Repeated(run) ELSE C25_Once(run)

\* C25: if the first watch-page response contains the consent-form marker and a consent
\* value can be extracted from it, the page fetch is repeated exactly once with that value
\* attached as a cookie; the page is never fetched a third time, even when the second
\* response again contains the marker; and it is fetched only once when the first response
\* has no marker or no consent value can be extracted.
C25_ConsentOnce ==
  \A run \in C25_Runs :
    /\ Len(run.pages) <= 2
    /\ C25_PageFetches(run.requests) <= 2
    /\ IF run.pages[1].marker /\ IsDefined(run.pages[1].value)
       THEN C25_Repeated(run) ELSE C25_Once(run)

\* the second answer is a consent page again, and the invocation has gone on to the player
C25_Witness ==
  \E p \in Procs :
    /\ pc[p] = "player"
    /\ upstream[p] = <<"watch", "watch+cookie", "player">>
    /\ Len(inv[p].pages) = 2
    /\ \A i \in 1..2 : inv[p].pages[i].marker /\ IsDefined(inv[p].pages[i].value)

\* the first answer holds the marker but no consent value: the page is fetched once
C25_WitnessNoValue ==
  \E run \in C25_Runs :
    run.pages[1].marker /\ ~IsDefined(run.pages[1].value) /\ C25_Once(run)

\* the tags of one grammar in a document whose text is not empty once decoded
C26_Tags(xml, tag) ==
  SelectSeq(xml, LAMBDA m : m.tag = tag /\ Len(decodeHtmlEntities(m.raw)) > 0)

\* one grammar-A segment per tag, times taken as milliseconds
C26_FromP(segments, tags) ==
  /\ Len(segments) = Len(tags)
  /\ \A i \in 1..Len(tags) :
       /\ segments[i].text = decodeHtmlEntities(tags[i].raw)
       /\ segments[i].start = tags[i].t
       /\ segments[i].duration = tags[i].d
       /\ segments[i].end = tags[i].t + tags[i].d

\* one grammar-B segment per tag, seconds multiplied by 1000 and rounded
C26_FromText(segments, tags) ==
  /\ Len(segments) = Len(tags)
  /\ \A i \in 1..Len(tags) :
       /\ segments[i].text = decodeHtmlEntities(tags[i].raw)
       /\ segments[i].start = (tags[i].t + 1) \div 2
       /\ segments[i].duration = (IF tags[i].d < 0 THEN 0 ELSE (tags[i].d + 1) \div 2)
       /\ segments[i].end = segments[i].start + segments[i].duration

\* the youtubei.js extraction that ended last had a caption document answered
C26_Parsed ==
  /\ ext.kind # "none"
  /\ ext.requests = <<"basicInfo", "timedtext">>
  /\ ext.status = 200
  /\ IsDefined(ext.xml)

\* C26: caption parsing tries grammar A (millisecond <p> tags) first and uses grammar B
\* (seconds <text> tags, offsets multiplied by 1000 and rounded) only when grammar A yields
\* zero segments: a document with at least one grammar-A segment yields only grammar-A
\* segments, a document with only grammar-B tags yields one segment per non-empty tag, and
\* zero segments from both is a fatal error.
C26_GrammarAFirst ==
  C26_Parsed =>
    LET pTags == C26_Tags(ext.xml[1], "p")
        textTags == C26_Tags(ext.xml[1], "text")
    IN IF Len(pTags) = 0 /\ Len(textTags) = 0
       THEN ext.kind = "error" /\ ext.error = ParseFailedXml
       ELSE /\ ext.kind = "record"
            /\ IF Len(pTags) > 0
               THEN C26_FromP(ext.data[1].transcriptWithTimeCodes, pTags)
               ELSE C26_FromText(ext.data[1].transcriptWithTimeCodes, textTags)

\* a document with tags of both grammars was parsed: only the <p> tag became a segment
C26_Witness ==
  /\ C26_Parsed
  /\ ext.xml[1] = DocMixed
  /\ ext.kind = "record"
  /\ Len(ext.data[1].transcriptWithTimeCodes) = 1
  /\ ext.data[1].transcriptWithTimeCodes[1].start = 1000

\* a document with grammar-B tags only was parsed, fractional times rounded
C26_WitnessFallback ==
  /\ C26_Parsed
  /\ ext.xml[1] = DocUnsorted
  /\ ext.kind = "record"
  /\ Len(ext.data[1].transcriptWithTimeCodes) = 2
  /\ ext.data[1].transcriptWithTimeCodes[1].start = 31001

\* a document whose tags are all empty once decoded is a fatal error
C26_WitnessNone ==
  C26_Parsed /\ ext.xml[1] = DocBlank /\ ext.kind = "error"

RECURSIVE C27_Flatten(_)
\* the entries of the windows, in window order
C27_Flatten(groups) ==
  IF Len(groups) = 0 THEN <<>> ELSE groups[1].entries \o C27_Flatten(Tail(groups))

\* the Segmenter ran on a non-empty sequence
C27_Ran == fout # <<>> /\ Len(fin.timecodes) > 0

\* the windows hold the input in its order, and each starts at its first segment's start
C27_StartsAtFirst(groups) ==
  /\ C27_Flatten(groups) = fin.timecodes
  /\ \A k \in 1..Len(groups) :
       Len(groups[k].entries) > 0 /\ groups[k].start = groups[k].entries[1].start

C27_NominalEnd(group) == group.start + fin.segmentDurationMs

\* the claim as stated: a segment opens a new window exactly when its start exceeds the
\* nominal end of the current window
C27_OpensWhenExceeds ==
  C27_Ran =>
    LET groups == fout[1].groups
    IN /\ C27_StartsAtFirst(groups)
       /\ \A k \in 1..Len(groups) :
            /\ \A j \in 2..Len(groups[k].entries) :
                 ~(groups[k].entries[j].start > C27_NominalEnd(groups[k]))
            /\ k > 1 => groups[k].entries[1].start > C27_NominalEnd(groups[k - 1])

\* C27: in the Segmenter the first window starts at the first segment's startMs, and a
\* segment closes the current window and opens a new one (starting at its own startMs)
\* exactly when its startMs reaches or exceeds the current window's nominal end (window
\* start + window duration); a segment whose startMs is below that nominal end stays in the
\* current window.
C27_OpensWhenReaches ==
  C27_Ran =>
    LET groups == fout[1].groups
    IN /\ C27_StartsAtFirst(groups)
       /\ \A k \in 1..Len(groups) :
            /\ \A j \in 2..Len(groups[k].entries) :
                 groups[k].entries[j].start < C27_NominalEnd(groups[k])
            /\ k > 1 => groups[k].entries[1].start >= C27_NominalEnd(groups[k - 1])

\* a segment starting exactly at the nominal end of the window opened a new one, and
\* another segment stayed in its window
C27_Witness ==
  /\ C27_Ran
  /\ \E k \in 2..Len(fout[1].groups) :
       fout[1].groups[k].entries[1].start = C27_NominalEnd(fout[1].groups[k - 1])
  /\ \E k \in 1..Len(fout[1].groups) : Len(fout[1].groups[k].entries) > 1

\* the end time of a window: that of the last segment in it
C28_End(group) == GroupEndTime(group.entries)

\* the claim as stated: each window ends at or before the start of the next one, and its
\* span from start to end is at most the window duration
C28_DisjointInTime ==
  C27_Ran =>
    LET groups == fout[1].groups
    IN /\ C27_Flatten(groups) = fin.timecodes
       /\ \A k \in 1..Len(groups) :
            /\ C28_End(groups[k]) - groups[k].start <= fin.segmentDurationMs
            /\ k < Len(groups) => C28_End(groups[k]) <= groups[k + 1].start

\* C28: the windows produced by the Segmenter are contiguous runs of the input (every
\* segment is in exactly one window, in input order), whose nominal extents do not overlap
\* (each window starts at or after the previous window's start plus the window duration),
\* and every segment of a window starts before the window's start plus the window duration.
C28_DisjointRuns ==
  C27_Ran =>
    LET groups == fout[1].groups
    IN /\ C27_Flatten(groups) = fin.timecodes
       /\ Len(fout[1].segments) = Len(groups)
       /\ \A k \in 1..Len(groups) :
            /\ Len(groups[k].entries) > 0
            /\ \A j \in 1..Len(groups[k].entries) :
                 groups[k].entries[j].start - groups[k].start < fin.segmentDurationMs
            /\ k < Len(groups) =>
                 groups[k + 1].start >= groups[k].start + fin.segmentDurationMs

\* entries in start order: a window ends after the next one starts, and another window
\* spans more than the window duration
C28_Witness ==
  /\ C27_Ran
  /\ C16_Sorted(fin.timecodes)
  /\ \E k \in 1..(Len(fout[1].groups) - 1) :
       C28_End(fout[1].groups[k]) > fout[1].groups[k + 1].start
  /\ \E k \in 1..Len(fout[1].groups) :
       /\ fin.segmentDurationMs > 1
       /\ C28_End(fout[1].groups[k]) - fout[1].groups[k].start > fin.segmentDurationMs

\* the request went to the MCP endpoint and the handler has run
C29_ToMcp == fout # <<>> /\ fin.path = <<McpPath>> /\ ~fin.db.fails

\* the Strapi API tokens that exist
C29_ApiTokens == {"api1"}

C29_Bearer == extractBearerToken(fin.authorization)

\* the OAuth token is on record, not revoked and not expired
C29_LiveOAuth(token) ==
  \E i \in 1..Len(fin.db.tokens) :
    /\ fin.db.tokens[i].accessToken = token
    /\ ~fin.db.tokens[i].revoked
    /\ fin.db.tokens[i].expiresAt >= Now

\* no bearer token, or one that is neither a live OAuth token nor a Strapi API token
C29_Fails ==
  \/ ~IsDefined(C29_Bearer)
  \/ C29_Bearer[1] = ""
  \/ C29_Bearer[1] \notin C29_ApiTokens /\ ~C29_LiveOAuth(C29_Bearer[1])

C29_Rejected(ctx) ==
  ctx.status = 401 /\ ctx.wwwAuthenticate /\ ~ctx.next /\ ~IsDefined(ctx.strapiToken)

\* C29: a request to the MCP endpoint that fails authentication (no bearer token, or a
\* bearer token that is an unknown, revoked or expired OAuth token) is answered with 401 and
\* a WWW-Authenticate header and never reaches the MCP controller; only on success is
\* ctx.state.strapiToken set and the request passed on.
C29_FailureIs401 ==
  C29_ToMcp =>
    /\ C29_Fails => C29_Rejected(fout[1])
    /\ (IsDefined(fout[1].strapiToken) \/ fout[1].next) => ~C29_Fails

\* without a bearer token the request is answered with 401 and does not reach the
\* controller; the OAuth handlers add the WWW-Authenticate header
C29_NoBearerIs401 ==
  (C29_ToMcp /\ (~IsDefined(C29_Bearer) \/ (C29_Bearer[1] = "" /\ fin.handler # "fallback"))) =>
    /\ fout[1].status = 401
    /\ ~fout[1].next
    /\ ~IsDefined(fout[1].strapiToken)
    /\ fin.handler # "fallback" => fout[1].wwwAuthenticate

\* a live OAuth token is exchanged for the Strapi API token of its client
C29_OAuthExchanged ==
  (C29_ToMcp /\ fin.handler # "fallback" /\ fout[1].authMethod = "oauth") =>
    /\ C29_LiveOAuth(C29_Bearer[1])
    /\ fout[1].next
    /\ \E i \in 1..Len(fin.db.clients) : fout[1].strapiToken = Some(fin.db.clients[i].strapiApiToken)

\* the OAuth middleware passed a revoked OAuth token on to the controller
C29_RevokedPasses ==
  /\ C29_ToMcp
  /\ fin.handler = "middleware"
  /\ fin.authorization = <<"Bearer ", "tokA">>
  /\ fin.db.tokens = <<OAuthToken("tokA", TRUE, 10, "c1")>>
  /\ fout[1].next
  /\ fout[1].strapiToken = Some("tokA")

\* the result of the call is the error result of fetch_transcript
C30_ErrorResult(result) == result.tool = "fetch_transcript" /\ "error" \in DOMAIN result.body

\* the extraction that ended last failed: the failure is the result of the call, and there
\* is no record for the identifier
C30_FailureReported ==
  /\ ext.kind = "error" =>
       /\ C30_ErrorResult(resp)
       /\ resp.body.message.cause = ext.error
       /\ ~IsDefined(findTranscript(store, resp.body.message.videoId))
  /\ (ext.kind = "record" /\ Len(ext.data[1].fullTranscript) = 0) =>
       /\ C30_ErrorResult(resp)
       /\ ~IsDefined(findTranscript(store, ext.data[1].videoId))

\* the step that ends a fetch with an error result leaves the storage as it is
C30_StoreKept ==
  \A p \in Procs :
    (pc[p] # "idle" /\ pc'[p] = "idle" /\ C30_ErrorResult(resp')) => store' = store

\* a fetch for an identifier without a record starts the pipeline with its first request
C30_RunsPipeline ==
  \A p \in Procs :
    (pc[p] = "find" /\ pc'[p] # "find" /\ IsValidId(inv[p].videoId)
       /\ ~IsDefined(findTranscript(store, inv[p].videoId))) =>
      /\ pc'[p] \in {"page", "basicInfo"}
      /\ Len(upstream'[p]) = 1
      /\ store' = store

\* C30: if extraction fails at any step, or returns no full text, fetch creates no record:
\* storage is left exactly as it was before the call and the failure is reported to the
\* caller, so a later fetch for the same identifier runs the pipeline again.
C30_NoRecordOnFailure ==
  []C30_FailureReported /\ [][C30_StoreKept /\ C30_RunsPipeline]_vars

\* the two step properties alone, which also hold while other fetches run concurrently
C30_Steps == [][C30_StoreKept /\ C30_RunsPipeline]_vars

\* an extraction failed at the caption document after three requests, and nothing is stored
C30_Witness ==
  /\ ext.kind = "error"
  /\ ext.requests = <<"watch", "player", "caption">>
  /\ C30_ErrorResult(resp)
  /\ resp.body.message.videoId = Id1
  /\ store = <<>>
  /\ \A p \in Procs : pc[p] = "idle"

\* the response to the served request asked again for the chunk with index i, segments
\* included
C31_Page(i) ==
  GetResponse(C17_Record,
              [req.args EXCEPT !.chunkIndex = Some(i), !.includeTimecodes = Some(TRUE)], cfg)

C31_Total == resp.body.metadata.totalChunks

RECURSIVE C31_Pages(_)
\* the segments of the chunks i .. totalChunks-1, one chunk after the other
C31_Pages(i) ==
  IF i >= C31_Total THEN <<>>
  ELSE (IF "transcriptWithTimeCodes" \in DOMAIN C31_Page(i)
        THEN C31_Page(i).transcriptWithTimeCodes ELSE <<>>) \o C31_Pages(i + 1)

C31_InRange(i) == "chunk" \in DOMAIN C31_Page(i) /\ "error" \notin DOMAIN C31_Page(i)

C31_RangeReported ==
  \A i \in 0..(C31_Total + 2) : C31_InRange(i) <=> i < C31_Total

C31_LastInside ==
  \A k \in 1..Len(C18_Timecodes) : C18_Timecodes[k].start < C18_Duration

\* the part that holds: for segments in start order that all start before the computed
\* duration the chunks cover the transcript, and the range is reported as stated always
C31_PagesCoverInside ==
  C18_Served =>
    /\ C31_RangeReported
    /\ (C16_Sorted(C18_Timecodes) /\ C31_LastInside) => C31_Pages(0) = C18_Timecodes

\* segments in start order, the last one without duration: it is in no chunk
C31_LastMissing ==
  /\ C18_Served
  /\ C16_Sorted(C18_Timecodes)
  /\ C31_Total > 0
  /\ Len(C31_Pages(0)) = Len(C18_Timecodes) - 1

\* a time-range get with a start and no end was served from a stored record
C32_Served ==
  /\ C17_Served
  /\ IsDefined(req.args.startTime)
  /\ ~IsDefined(req.args.endTime)

\* the stored segments that start at or after the requested start
C32_FromStart ==
  SelectSeq(C17_Record.transcriptWithTimeCodes,
            LAMBDA e : e.start >= req.args.startTime[1] * 1000)

C32_OpenEndedInside ==
  (C32_Served
     /\ \A k \in 1..Len(C17_Record.transcriptWithTimeCodes) :
          C17_Record.transcriptWithTimeCodes[k].start
            < getVideoDurationMs(C17_Record.transcriptWithTimeCodes)) =>
    /\ resp.body.transcript = Join(SegmentTexts(C32_FromStart), Space)
    /\ req.args.startTime[1] = 0 => resp.body.transcript = C17_Record.fullTranscript

\* segments in start order and startTime 0: the transcript returned lacks the last segment
C32_LastMissing ==
  /\ C32_Served
  /\ req.args.startTime[1] = 0
  /\ C16_Sorted(C17_Record.transcriptWithTimeCodes)
  /\ resp.body.transcript # C17_Record.fullTranscript
  /\ resp.body.transcript = C17_Record.transcriptWithTimeCodes[1].text

\* the result handleToolCall makes of an error: error: true, the message, the tool name
C33_ErrorResult(result, name) ==
  /\ result.tool = name
  /\ DOMAIN result.body = {"error", "message", "tool"}
  /\ result.body.error = TRUE
  /\ result.body.tool = name

\* a call of a registered tool has returned
C33_Returned == req.tool \in toolHandlers /\ resp # NoResult

\* the input of the call carries no identifier, or a malformed one
C33_BadInput ==
  /\ req.tool \in {"fetch_transcript", "get_transcript", "search_transcript"}
  /\ ~IsValidId(C12_Input(req).id)

\* C33: handleToolCall never propagates a failure of a registered tool: any validation
\* error, invalid identifier or extraction error raised by a handler becomes a normal result
\* whose payload has error: true, the message and the tool name; only a tool name with no
\* registered handler makes handleToolCall itself throw.
C33_NeverPropagates ==
  /\ "thrown" \in DOMAIN resp.body => req.tool \notin toolHandlers
  /\ (C33_Returned /\ C33_BadInput) =>
       /\ C33_ErrorResult(resp, req.tool)
       /\ resp.body.message \in {ValidationMessage(req.tool), InvalidIdMessage(C12_Input(req))}
  /\ (C33_Returned /\ ext.kind = "error") =>
       /\ C33_ErrorResult(resp, "fetch_transcript")
       /\ resp.body.message.cause = ext.error

\* an extraction error came back as the error result of fetch_transcript
C33_Witness ==
  /\ C33_Returned
  /\ ext.kind = "error"
  /\ ext.error = RateLimited
  /\ C33_ErrorResult(resp, "fetch_transcript")

\* a call of an unregistered tool made handleToolCall throw
C33_WitnessUnknown ==
  /\ req.tool = "delete_transcript"
  /\ "thrown" \in DOMAIN resp.body
  /\ resp.body.message = Err("Unknown tool", "delete_transcript")

\* a call with the empty identifier came back as the validation error
C33_WitnessValidation ==
  /\ C33_Returned
  /\ req.tool = "get_transcript"
  /\ C33_ErrorResult(resp, "get_transcript")
  /\ resp.body.message = ValidationMessage("get_transcript")

(***************************************************************************)
(* The MCP controller with session expiry.  A session is the pair of its   *)
(* registry key and its createdAt; `closed' holds the ids whose server was *)
(* closed; `uuids' counts the ids randomUUID has handed out.  A request    *)
(* header is absent (<<>>), the empty string (EmptyHeader) or a session id.*)
(***************************************************************************)
SESSION_TIMEOUT_MS == 14400000

MaxSessions == 1
MaxPeriods == 1

EmptyHeader == 0

SessionIds == 1..(MaxSessions + 1)

McpHeaders == {<<>>, <<EmptyHeader>>} \cup {<<k>> : k \in SessionIds}

\* the instants the clock is read at: whole timeouts, and one millisecond past them
Instants == {k * SESSION_TIMEOUT_MS + j : k \in 0..MaxPeriods, j \in {0, 1}}

Session(id, createdAt) == [id |-> id, createdAt |-> createdAt]

\* a session that never expires
isSessionExpiredNever(session, now) == FALSE

isSessionExpired(session, now) == now - session.createdAt > SESSION_TIMEOUT_MS

Expired(registry, now) == {s \in registry : isSessionExpired(s, now)}

\* the registry and the closed servers after cleanupExpiredSessions
cleanupExpiredSessions(registry, shut, now) ==
  [sessions |-> registry \ Expired(registry, now),
   closed |-> shut \cup {s.id : s \in Expired(registry, now)}]

\* a header value JavaScript takes as true
Truthy(header) == header # <<>> /\ header[1] # EmptyHeader

SessionsGet(registry, id) == {s \in registry : s.id = id}

McpResponse(q, status, code, header) ==
  [q |-> q, status |-> status, code |-> code, header |-> header]

\* handle, up to its first await or its return
McpArrive(q, header, cleanup) ==
  /\ mcp[q].pc = "idle"
  /\ LET swept == IF cleanup THEN cleanupExpiredSessions(sessions, closed, clock)
                  ELSE [sessions |-> sessions, closed |-> closed]
         looked == IF Truthy(header) THEN SessionsGet(swept.sessions, header[1]) ELSE {}
         stale == {s \in looked : isSessionExpired(s, clock)}
         session == looked \ stale
         registry == swept.sessions \ stale
         shut == swept.closed \cup {s.id : s \in stale}
     IN IF Truthy(header) /\ session = {}
        THEN /\ sessions' = registry
             /\ closed' = shut
             /\ mcpOut' = McpResponse(q, 400, -32000, header)
             /\ UNCHANGED <<uuids, mcp>>
        ELSE IF session = {}
        THEN /\ uuids < MaxSessions
             /\ sessions' = registry
             /\ closed' = shut
             /\ uuids' = uuids + 1
             /\ mcp' = [mcp EXCEPT ![q] = [pc |-> "connect", header |-> header,
                                           sid |-> uuids + 1, createdAt |-> 0]]
             /\ UNCHANGED mcpOut
        ELSE /\ sessions' = registry
             /\ closed' = shut
             /\ \E s \in session :
                  mcp' = [mcp EXCEPT ![q] = [pc |-> "handle", header |-> header,
                                             sid |-> s.id, createdAt |-> s.createdAt]]
             /\ UNCHANGED <<uuids, mcpOut>>
  /\ UNCHANGED <<clock, cfg, store, pc, inv, upstream, ext, req, resp, fin, fout, OAuthVars>>

\* server.connect settles: the session is registered and the request dispatched
McpConnected(q, ok) ==
  /\ mcp[q].pc = "connect"
  /\ IF ok
     THEN /\ sessions' = {s \in sessions : s.id # mcp[q].sid}
                           \cup {Session(mcp[q].sid, clock)}
          /\ mcp' = [mcp EXCEPT ![q].pc = "handle", ![q].createdAt = clock]
          /\ UNCHANGED mcpOut
     ELSE /\ mcp' = [mcp EXCEPT ![q] = McpIdle]
          /\ mcpOut' = McpResponse(q, 500, 0, mcp[q].header)
          /\ UNCHANGED sessions
  /\ UNCHANGED <<closed, uuids, clock, cfg, store, pc, inv, upstream, ext, req, resp,
                 fin, fout, OAuthVars>>

\* transport.handleRequest settles
McpHandled(q, ok) ==
  /\ mcp[q].pc = "handle"
  /\ mcp' = [mcp EXCEPT ![q] = McpIdle]
  /\ mcpOut' = IF ok THEN McpResponse(q, 200, 0, mcp[q].header)
               ELSE McpResponse(q, 500, 0, mcp[q].header)
  /\ UNCHANGED <<sessions, closed, uuids, clock, cfg, store, pc, inv, upstream, ext, req,
                 resp, fin, fout, OAuthVars>>

\* time passes
Tick(t) ==
  /\ t > clock
  /\ clock' = t
  /\ UNCHANGED <<sessions, closed, uuids, mcp, mcpOut, cfg, store, pc, inv, upstream, ext,
                 req, resp, fin, fout, OAuthVars>>

NextSessions ==
  \/ \E q \in McpProcs, header \in McpHeaders, cleanup \in BOOLEAN : McpArrive(q, header, cleanup)
  \/ \E q \in McpProcs, ok \in BOOLEAN : McpConnected(q, ok)
  \/ \E q \in McpProcs, ok \in BOOLEAN : McpHandled(q, ok)
  \/ \E t \in Instants : Tick(t)

\* the plugin after bootstrap: default config, nothing stored, no session
InitSessions ==
  /\ cfg = DefaultConfig
  /\ store = <<>>
  /\ InitCalls

SpecSessions == InitSessions /\ [][NextSessions]_vars

\* request slot q takes a request in this step
C34_Arrives(q) ==
  /\ mcp[q].pc = "idle"
  /\ \/ mcp'[q].pc # "idle"
     \/ mcpOut' # mcpOut /\ mcpOut'.q = q

\* the mcp-session-id header of the request slot q takes in this step
C34_Header(q) == IF mcp'[q].pc # "idle" THEN mcp'[q].header ELSE mcpOut'.header

\* the sessions registered under id whose age is within the timeout
C34_Live(id) == {s \in sessions : s.id = id /\ clock - s.createdAt <= SESSION_TIMEOUT_MS}

\* the request of slot q is answered 400 and leaves no session under id
C34_Refused(q, id) ==
  /\ mcpOut'.q = q
  /\ mcpOut'.status = 400
  /\ mcpOut'.code = -32000
  /\ mcp'[q].pc = "idle"
  /\ SessionsGet(sessions', id) = {}
  /\ SessionsGet(sessions, id) # {} => id \in closed'
  /\ sessions' \subseteq sessions
  /\ uuids' = uuids

\* the request of slot q goes to the live session registered under id
C34_Dispatched(q, id) ==
  /\ mcp'[q].pc = "handle"
  /\ mcp'[q].sid = id
  /\ Session(id, mcp'[q].createdAt) \in C34_Live(id)
  /\ uuids' = uuids

C34_ById ==
  \A q \in McpProcs :
    C34_Arrives(q) /\ Truthy(C34_Header(q)) =>
      IF C34_Live(C34_Header(q)[1]) = {}
      THEN C34_Refused(q, C34_Header(q)[1])
      ELSE C34_Dispatched(q, C34_Header(q)[1])

\* a session enters the registry, or an id is drawn, only for a request without an id
C34_NewOnlyWithoutId ==
  /\ uuids' # uuids => \E q \in McpProcs : C34_Arrives(q) /\ ~Truthy(C34_Header(q))
  /\ ~(sessions' \subseteq sessions) =>
       \E q \in McpProcs :
         /\ mcp[q].pc = "connect"
         /\ ~Truthy(mcp[q].header)
         /\ sessions' \ sessions = {Session(mcp[q].sid, clock)}

\* a request in a session's hands that named an id is in the hands of that id's session
C34_HandledByNamed ==
  \A q \in McpProcs :
    mcp[q].pc = "handle" /\ Truthy(mcp[q].header) => mcp[q].sid = mcp[q].header[1]

\* C34: a request carrying an mcp-session-id is dispatched only to the session
\* registered under that id and no older than SESSION_TIMEOUT_MS; with an unknown or
\* expired id it is answered 400 (-32000), the expired session is closed and removed,
\* and no session is created; sessions are created only for requests without an id.
C34_SessionRegistry == []C34_HandledByNamed /\ [][C34_ById /\ C34_NewOnlyWithoutId]_vars

\* an expired session was named, refused, closed and removed
C34_Witness ==
  /\ mcpOut.status = 400
  /\ Truthy(mcpOut.header)
  /\ mcpOut.header[1] \in closed
  /\ SessionsGet(sessions, mcpOut.header[1]) = {}

\* an id that was never issued was refused
C34_WitnessUnknown ==
  /\ mcpOut.status = 400
  /\ Truthy(mcpOut.header)
  /\ mcpOut.header[1] > uuids

\* a request naming a session exactly SESSION_TIMEOUT_MS old is in that session's hands
C34_WitnessBoundary ==
  \E q \in McpProcs :
    /\ mcp[q].pc = "handle"
    /\ Truthy(mcp[q].header)
    /\ clock - mcp[q].createdAt = SESSION_TIMEOUT_MS
    /\ Session(mcp[q].sid, mcp[q].createdAt) \in sessions

\* the request went through the middleware or the policy and came out as an OAuth request
C37_AsOAuth ==
  /\ fout # <<>>
  /\ fin.handler \in {"middleware", "policy"}
  /\ fout[1].authMethod = "oauth"

\* the bearer token of the request
C37_Token == extractBearerToken(fin.authorization)[1]

\* the token records a lookup by the bearer token can return
C37_Records ==
  {i \in 1..Len(fin.db.tokens) :
     /\ fin.db.tokens[i].accessToken = C37_Token
     /\ fin.db.tokens[i].revoked = FALSE
     /\ fin.db.tokens[i].expiresAt >= Now}

C37_Clients(active) ==
  {j \in 1..Len(fin.db.clients) :
     /\ \E i \in C37_Records : fin.db.clients[j].clientId = fin.db.tokens[i].clientId
     /\ fin.db.clients[j].active \in active}

C37_SameVerdict ==
  (fout # <<>> /\ IsDefined(extractBearerToken(fin.authorization))) =>
    validateOAuthToken(C37_Token, fin.db).valid = validateAccessToken(C37_Token, fin.db).valid

\* C37: a bearer token comes out of the middleware or the policy as an OAuth token only
\* if its record exists, is not revoked and not expired and its client exists and is
\* active; and the request-path check and validateAccessToken give the same verdict.
C37_ActiveClientOnly ==
  /\ C37_AsOAuth =>
       /\ C37_Records # {}
       /\ C37_Clients({TRUE}) # {}
       /\ fout[1].strapiToken = Some(fin.db.clients[CHOOSE j \in C37_Clients({TRUE}) : TRUE].strapiApiToken)
  /\ C37_SameVerdict

\* C37 without the client's active flag: an OAuth request has a live token record and a
\* registered client whose linked Strapi API token it carries
C37_LiveRecordAndClient ==
  C37_AsOAuth =>
    /\ C37_Records # {}
    /\ C37_Clients(BOOLEAN) # {}
    /\ fout[1].strapiToken = Some(fin.db.clients[CHOOSE j \in C37_Clients(BOOLEAN) : TRUE].strapiApiToken)

\* the token of a deactivated client came out as an OAuth token
C37_InactiveAccepted ==
  /\ C37_AsOAuth
  /\ C37_Clients({TRUE}) = {}
  /\ ~validateAccessToken(C37_Token, fin.db).valid

(***************************************************************************)
(* The OAuth token endpoint.  oauthCodes and oauthTokens are the oauth-code*)
(* and oauth-token collections, a document's index its documentId; minted  *)
(* counts the token pairs randomBytes has produced, pair n being the access*)
(* token AccessTokenOf(n) with RefreshTokenOf(n).            The field origin *)
(* of a token document is no column of the collection: it records the     *)
(* grant that minted the pair.                                             *)
(***************************************************************************)
\* lifetimes in seconds, the unit the token endpoint's clock is read in
expiresIn == 3600
refreshExpiresIn == 2592000

MaxMinted == 3

\* the hex strings randomBytes returns, by the order they are drawn in
AccessTokenOf(n) == <<"at0", "at1", "at2", "at3", "at4", "at5">>[n + 1]
RefreshTokenOf(n) == <<"rt0", "rt1", "rt2", "rt3", "rt4", "rt5">>[n + 1]

OAuthCode(code, clientId, redirectUri, expiresAt, used) ==
  [code |-> code, clientId |-> clientId, redirectUri |-> redirectUri, expiresAt |-> expiresAt,
   used |-> used]

TokenPair(n, clientId, now, origin) ==
  [accessToken |-> AccessTokenOf(n), refreshToken |-> RefreshTokenOf(n), clientId |-> clientId,
   expiresAt |-> now + expiresIn, refreshExpiresAt |-> now + refreshExpiresIn,
   revoked |-> FALSE, origin |-> origin]

\* the oauth-client collection: one active client and one deactivated
GrantClients ==
  <<[clientId |-> "c1", clientSecret |-> "s1", strapiApiToken |-> "st1", active |-> TRUE],
    [clientId |-> "c2", clientSecret |-> "s2", strapiApiToken |-> "st2", active |-> FALSE]>>

GrantBody(grantType, presented, redirectUri, clientId, clientSecret) ==
  [grantType |-> grantType, presented |-> presented, redirectUri |-> redirectUri,
   clientId |-> clientId, clientSecret |-> clientSecret]

\* the bodies of POST /oauth/token; presented is the code or the refresh_token
GrantBodies ==
  {GrantBody("authorization_code", code, "r1", "c1", "s1") :
     code \in {"", "code1", "code2"}}
  \cup {GrantBody("authorization_code", "code1", "r2", "c1", "s1")}
  \cup {GrantBody("refresh_token", rt, "r1", "c1", "s1") :
          rt \in {"", RefreshTokenOf(0), RefreshTokenOf(1)}}
  \cup {GrantBody("password", "", "r1", "c1", "s1"),
        GrantBody("authorization_code", "code1", "r1", "c1", ""),
        GrantBody("authorization_code", "code1", "r1", "c1", "bad"),
        GrantBody("authorization_code", "code1", "r1", "c2", "s2")}

GrantError(status, error) == [status |-> status, error |-> error, pair |-> 0]

GrantIssued(n) == [status |-> 200, error |-> "", pair |-> n]

\* the indexes of the documents passing a filter, in collection order
Matching(docs, Passes(_)) == {i \in 1..Len(docs) : Passes(docs[i])}

First(found) == CHOOSE i \in found : \A j \in found : i <= j

GrantAnswer(g, response) ==
  /\ grant' = [grant EXCEPT ![g] = GrantIdle]
  /\ grantOut' = response

\* token: the credentials are read and the client lookup is awaited
TokenArrive(g, body) ==
  /\ grant[g].pc = "idle"
  /\ IF body.clientId = "" \/ body.clientSecret = ""
     THEN GrantAnswer(g, GrantError(401, "invalid_client"))
     ELSE /\ grant' = [grant EXCEPT ![g] = [pc |-> "client", body |-> <<body>>, found |-> 0]]
          /\ UNCHANGED grantOut
  /\ UNCHANGED <<oauthCodes, oauthTokens, minted, ServerVars, cfg, store, pc, inv, upstream,
                 ext, req, resp, fin, fout>>

\* the client lookup settles; the grant handler runs up to its lookup
TokenClient(g) ==
  /\ grant[g].pc = "client"
  /\ LET body == grant[g].body[1]
         client == Matching(GrantClients,
                            LAMBDA c : c.clientId = body.clientId /\ c.active = TRUE)
     IN IF client = {} \/ GrantClients[First(client)].clientSecret # body.clientSecret
        THEN GrantAnswer(g, GrantError(401, "invalid_client"))
        ELSE IF body.grantType \notin {"authorization_code", "refresh_token"}
        THEN GrantAnswer(g, GrantError(400, "unsupported_grant_type"))
        ELSE IF body.presented = ""
        THEN GrantAnswer(g, GrantError(400, "invalid_request"))
        ELSE /\ grant' = [grant EXCEPT ![g].pc = "lookup"]
             /\ UNCHANGED grantOut
  /\ UNCHANGED <<oauthCodes, oauthTokens, minted, ServerVars, cfg, store, pc, inv, upstream,
                 ext, req, resp, fin, fout>>

\* handleAuthorizationCodeGrant: findFirst settles, the code is checked
CodeLookup(g) ==
  /\ grant[g].pc = "lookup"
  /\ grant[g].body[1].grantType = "authorization_code"
  /\ LET body == grant[g].body[1]
         authCode == Matching(oauthCodes,
                              LAMBDA c : c.code = body.presented /\ c.clientId = body.clientId
                                         /\ c.used = FALSE)
     IN IF authCode = {} THEN GrantAnswer(g, GrantError(400, "invalid_grant"))
        ELSE IF oauthCodes[First(authCode)].expiresAt < clock
        THEN GrantAnswer(g, GrantError(400, "invalid_grant"))
        ELSE IF oauthCodes[First(authCode)].redirectUri # body.redirectUri
        THEN GrantAnswer(g, GrantError(400, "invalid_grant"))
        ELSE /\ grant' = [grant EXCEPT ![g].pc = "mark", ![g].found = First(authCode)]
             /\ UNCHANGED grantOut
  /\ UNCHANGED <<oauthCodes, oauthTokens, minted, ServerVars, cfg, store, pc, inv, upstream,
                 ext, req, resp, fin, fout>>

\* handleRefreshTokenGrant: findFirst settles, the token is checked
RefreshLookup(g) ==
  /\ grant[g].pc = "lookup"
  /\ grant[g].body[1].grantType = "refresh_token"
  /\ LET body == grant[g].body[1]
         token == Matching(oauthTokens,
                           LAMBDA t : t.refreshToken = body.presented
                                      /\ t.clientId = body.clientId /\ t.revoked = FALSE)
     IN IF token = {} THEN GrantAnswer(g, GrantError(400, "invalid_grant"))
        ELSE IF oauthTokens[First(token)].refreshExpiresAt < clock
        THEN GrantAnswer(g, GrantError(400, "invalid_grant"))
        ELSE /\ grant' = [grant EXCEPT ![g].pc = "mark", ![g].found = First(token)]
             /\ UNCHANGED grantOut
  /\ UNCHANGED <<oauthCodes, oauthTokens, minted, ServerVars, cfg, store, pc, inv, upstream,
                 ext, req, resp, fin, fout>>

\* the update settles: used / revoked is set, the new pair is drawn, create is awaited
GrantMark(g) ==
  /\ grant[g].pc = "mark"
  /\ minted < MaxMinted
  /\ IF grant[g].body[1].grantType = "authorization_code"
     THEN /\ oauthCodes' = [oauthCodes EXCEPT ![grant[g].found].used = TRUE]
          /\ UNCHANGED oauthTokens
     ELSE /\ oauthTokens' = [oauthTokens EXCEPT ![grant[g].found].revoked = TRUE]
          /\ UNCHANGED oauthCodes
  /\ minted' = minted + 1
  /\ grant' = [grant EXCEPT ![g].pc = "create", ![g].found = minted + 1]
  /\ UNCHANGED <<grantOut, ServerVars, cfg, store, pc, inv, upstream, ext, req, resp, fin, fout>>

\* create settles: the pair is stored and sent
GrantCreate(g) ==
  /\ grant[g].pc = "create"
  /\ oauthTokens' = Append(oauthTokens,
                           TokenPair(grant[g].found, grant[g].body[1].clientId, clock,
                                     <<grant[g].body[1].grantType, grant[g].body[1].presented>>))
  /\ GrantAnswer(g, GrantIssued(grant[g].found))
  /\ UNCHANGED <<oauthCodes, minted, ServerVars, cfg, store, pc, inv, upstream, ext, req, resp,
                 fin, fout>>

NextOAuth ==
  \/ \E g \in GrantProcs, body \in GrantBodies : TokenArrive(g, body)
  \/ \E g \in GrantProcs : TokenClient(g)
  \/ \E g \in GrantProcs : CodeLookup(g)
  \/ \E g \in GrantProcs : RefreshLookup(g)
  \/ \E g \in GrantProcs : GrantMark(g)
  \/ \E g \in GrantProcs : GrantCreate(g)

\* after /oauth/authorize has handed out a live code and an expired one, and an earlier
\* grant pair 0
InitOAuth ==
  /\ cfg = DefaultConfig
  /\ store = <<>>
  /\ pc = [p \in Procs |-> "idle"]
  /\ inv = [p \in Procs |-> InvIdle]
  /\ upstream = [p \in Procs |-> <<>>]
  /\ ext = NoOutcome
  /\ resp = NoResult
  /\ req = NoRequest
  /\ fin = <<>>
  /\ fout = <<>>
  /\ sessions = {}
  /\ closed = {}
  /\ uuids = 0
  /\ clock = Now
  /\ mcp = [q \in McpProcs |-> McpIdle]
  /\ mcpOut = NoMcpResponse
  /\ oauthCodes = <<OAuthCode("code1", "c1", "r1", Now + 1, FALSE),
                    OAuthCode("code2", "c1", "r1", Now - 1, FALSE)>>
  /\ oauthTokens = <<TokenPair(0, "c1", Now, <<"authorization_code", "code0">>)>>
  /\ minted = 0
  /\ grant = [g \in GrantProcs |-> GrantIdle]
  /\ grantOut = NoGrantResponse

SpecOAuth == InitOAuth /\ [][NextOAuth]_vars

\* the token pairs minted for the grant of kind grantType that presented `presented'
C35_PairsOf(grantType, presented) ==
  {i \in 1..Len(oauthTokens) : oauthTokens[i].origin = <<grantType, presented>>}

\* the requests in flight that will still mint a pair for (grantType, presented)
C35_Pending(grantType, presented) ==
  {g \in GrantProcs :
     /\ grant[g].pc = "create"
     /\ grant[g].body[1].grantType = grantType
     /\ grant[g].body[1].presented = presented}

\* C35: an authorization code is exchanged at most once: no code yields two token
\* pairs, also not through token requests running concurrently with the exchange.
C35_CodeOnce ==
  \A i \in 1..Len(oauthCodes) :
    Cardinality(C35_PairsOf("authorization_code", oauthCodes[i].code)) <= 1

\* a token request whose code lookup runs after the code was marked used is refused
C35_UsedIsRefused ==
  \A g \in GrantProcs :
    (/\ grant[g].pc = "lookup"
     /\ grant[g].body[1].grantType = "authorization_code"
     /\ grant'[g].pc # "lookup"
     /\ \A i \in 1..Len(oauthCodes) :
          oauthCodes[i].code = grant[g].body[1].presented => oauthCodes[i].used)
    => /\ grant'[g].pc = "idle"
       /\ grantOut' = GrantError(400, "invalid_grant")

C35_LaterRefused == [][C35_UsedIsRefused]_vars

\* two token pairs stored for one code
C35_TwoPairs ==
  \E i \in 1..Len(oauthCodes) :
    Cardinality(C35_PairsOf("authorization_code", oauthCodes[i].code)) = 2

\* a used code was presented again and refused
C35_WitnessRefused ==
  /\ grantOut = GrantError(400, "invalid_grant")
  /\ oauthCodes[1].used
  /\ Cardinality(C35_PairsOf("authorization_code", oauthCodes[1].code)) = 1

\* the token documents whose refresh token has been exchanged for a stored pair
C36_Refreshed ==
  {i \in 1..Len(oauthTokens) :
     C35_PairsOf("refresh_token", oauthTokens[i].refreshToken) # {}}

\* validateAccessToken against the collections as they are now
C36_Validates(accessToken) ==
  validateAccessToken(accessToken,
                      [tokens |-> oauthTokens, clients |-> GrantClients, fails |-> FALSE]).valid

\* C36_Refreshed pairs are revoked and their access tokens no longer validate
C36_PresentedRevoked ==
  \A i \in C36_Refreshed :
    /\ oauthTokens[i].revoked
    /\ ~C36_Validates(oauthTokens[i].accessToken)

\* C36: after a successful refresh_token grant the presented pair is revoked, its access
\* token no longer validates, and exactly one new non-revoked pair has been issued for
\* it, whatever other token requests ran at the same time.
C36_RefreshOnce ==
  /\ C36_PresentedRevoked
  /\ \A i \in C36_Refreshed :
       Cardinality(C35_PairsOf("refresh_token", oauthTokens[i].refreshToken)) = 1

\* a refresh whose lookup runs after the presented pair was revoked is refused
C36_RevokedIsRefused ==
  \A g \in GrantProcs :
    (/\ grant[g].pc = "lookup"
     /\ grant[g].body[1].grantType = "refresh_token"
     /\ grant'[g].pc # "lookup"
     /\ \A i \in 1..Len(oauthTokens) :
          oauthTokens[i].refreshToken = grant[g].body[1].presented => oauthTokens[i].revoked)
    => /\ grant'[g].pc = "idle"
       /\ grantOut' = GrantError(400, "invalid_grant")

C36_LaterRefused == [][C36_RevokedIsRefused]_vars

\* one refresh token has been exchanged for two stored pairs
C36_TwoPairs == \E i \in C36_Refreshed :
  Cardinality(C35_PairsOf("refresh_token", oauthTokens[i].refreshToken)) = 2

\* a refresh went through alone: the old pair is revoked, the new one validates
C36_WitnessRotated ==
  /\ grantOut.status = 200
  /\ 1 \in C36_Refreshed
  /\ \E j \in C35_PairsOf("refresh_token", oauthTokens[1].refreshToken) :
       /\ grantOut.pair = j - 1
       /\ C36_Validates(oauthTokens[j].accessToken)


====
